---------------------------- MODULE Spec2Model ----------------------------
(***************************************************************************)
(* A model of the BMC CPAP analyzers: the sample decoders of               *)
(* bmc_sleep_analyzer.py, bmc_cpap_analyzer.py and                         *)
(* detailed_event_analyzer.py, the summary statistics, the trend analysis, *)
(* the clinical classifier and the reference correlation.                  *)
(*                                                                         *)
(* Pressures are Python floats in the code.  Here they are exact rational  *)
(* numbers [n |-> numerator, d |-> denominator], kept in lowest terms with *)
(* d > 0, so that equal numbers are equal records.                         *)
(***************************************************************************)
EXTENDS Integers, Sequences, FiniteSets, TLC

VARIABLES
    analyzer,       \* which program runs: "sleep", "cpap" or "timeline"
    disk,           \* the bytes each file of Files holds
    fileIdx,        \* index into Files of the file being processed
    data,           \* the bytes read from the current file
    i,              \* the loop variable of the window scan
    pressures,      \* the per-file list the scan appends to
    examined,       \* history: the windows the scan has unpacked, in order
    all_pressures,  \* the aggregate list
    per_file,       \* file number -> the per-file entry
    runs,           \* history: the list each finished file scan produced
    pc,             \* position of the program
    mobile_reference,   \* the reference record of the analyzer object
    analysis,       \* what _analyze_pressure_therapy returned
    in_range,       \* what a call of _calculate_time_in_range returned
    correlation,    \* what calculate_correlation returned
    values,         \* the per-file means handed to the trend functions
    trend,          \* what the trend functions returned
    mean_pressure,  \* the mean handed to _assess_pressure_level
    pressure_level, \* what _assess_pressure_level returned
    call,           \* the arguments of a function called on its own
    result          \* what that function returned

decodeVars == <<analyzer, disk, fileIdx, data, i, pressures, examined,
                all_pressures, per_file, runs, pc, mobile_reference>>

resultVars == <<analysis, in_range, correlation, values, trend,
                mean_pressure, pressure_level>>

callVars == <<call, result>>

vars == <<decodeVars, resultVars, callVars>>

\* a result not computed yet
Pending == [status |-> "pending"]

\* no function called on its own
NoCall == [fn |-> "none"]

CallIdle == call = NoCall /\ result = Pending

--------------------------------------------------------------------------
(* Exact arithmetic standing for the float arithmetic of the code.        *)

RECURSIVE GCD(_, _)
GCD(a, b) == IF b = 0 THEN a ELSE GCD(b, a % b)

Abs(x) == IF x < 0 THEN -x ELSE x

Rat(n, d) ==
    LET g == GCD(Abs(n), Abs(d))
        s == IF d < 0 THEN -1 ELSE 1
    IN  [n |-> s * (n \div g), d |-> s * (d \div g)]

FromInt(k) == [n |-> k, d |-> 1]

RAdd(a, b) ==
    LET l == (a.d \div GCD(a.d, b.d)) * b.d
    IN  Rat(a.n * (l \div a.d) + b.n * (l \div b.d), l)

RNeg(a) == [n |-> -a.n, d |-> a.d]

RSub(a, b) == RAdd(a, RNeg(b))

RMul(a, b) ==
    LET g1 == GCD(Abs(a.n), b.d)
        g2 == GCD(Abs(b.n), a.d)
    IN  Rat((a.n \div g1) * (b.n \div g2), (a.d \div g2) * (b.d \div g1))

\* true division; the divisor is never zero where the code divides
RDiv(a, b) == RMul(a, Rat(b.d, b.n))

RLe(a, b) == a.n * b.d <= b.n * a.d

RLt(a, b) == a.n * b.d < b.n * a.d

RAbs(a) == [n |-> Abs(a.n), d |-> a.d]

RMax(a, b) == IF RLe(a, b) THEN b ELSE a

--------------------------------------------------------------------------
(* Sequences and the numpy reductions the analyzers use.                  *)

RECURSIVE Sum(_)
Sum(xs) == IF xs = <<>> THEN FromInt(0) ELSE RAdd(Head(xs), Sum(Tail(xs)))

RECURSIVE Insert(_, _)
Insert(x, sorted) ==
    IF sorted = <<>> THEN <<x>>
    ELSE IF RLe(x, Head(sorted)) THEN <<x>> \o sorted
    ELSE <<Head(sorted)>> \o Insert(x, Tail(sorted))

RECURSIVE Sorted(_)
Sorted(xs) == IF xs = <<>> THEN <<>> ELSE Insert(Head(xs), Sorted(Tail(xs)))

\* the sum divided by one more than the count
MeanOverCount(xs) == RDiv(Sum(xs), FromInt(Len(xs) + 1))

\* np.mean of a non-empty list
Mean(xs) == RDiv(Sum(xs), FromInt(Len(xs)))

\* np.median of a non-empty list
Median(xs) ==
    LET a == Sorted(xs)
        n == Len(xs)
    IN  IF n % 2 = 1 THEN a[(n + 1) \div 2]
        ELSE RDiv(RAdd(a[n \div 2], a[n \div 2 + 1]), FromInt(2))

\* percentiles of the list as it is given, unsorted
PercentileUnsorted(xs, q) ==
    LET n     == Len(xs)
        prev  == (q * (n - 1)) \div 100
        gamma == Rat((q * (n - 1)) % 100, 100)
        next  == IF prev + 1 > n - 1 THEN n - 1 ELSE prev + 1
    IN  RAdd(xs[prev + 1], RMul(gamma, RSub(xs[next + 1], xs[prev + 1])))

\* np.percentile(xs, q) of a non-empty list, default linear interpolation:
\* the virtual index is q/100 * (n-1), counted from 0
Percentile(xs, q) ==
    LET a     == Sorted(xs)
        n     == Len(xs)
        prev  == (q * (n - 1)) \div 100
        gamma == Rat((q * (n - 1)) % 100, 100)
        next  == IF prev + 1 > n - 1 THEN n - 1 ELSE prev + 1
    IN  RAdd(a[prev + 1], RMul(gamma, RSub(a[next + 1], a[prev + 1])))

RECURSIVE SumSqDev(_, _)
SumSqDev(xs, m) ==
    IF xs = <<>> THEN FromInt(0)
    ELSE RAdd(RMul(RSub(Head(xs), m), RSub(Head(xs), m)), SumSqDev(Tail(xs), m))

\* np.std is the square root of the population variance; the model keeps the
\* variance, of which the standard deviation is the non-negative root
Variance(xs) == RDiv(SumSqDev(xs, Mean(xs)), FromInt(Len(xs)))

Std(xs) == [sqrt_of |-> Variance(xs)]

Min(xs) == Sorted(xs)[1]

Max(xs) == Sorted(xs)[Len(xs)]

--------------------------------------------------------------------------
(* The sample decoders.                                                   *)

\* the files the analyzers are given, by their numeric suffix, in the order
\* the file selection lists them
Files == <<25, 26>>

\* most 2-byte windows in a buffer
MaxWindows == 2

\* the 16-bit values the windows of a buffer hold: the edges of the three
\* bands (50 and 300, 75 and 140, 350), a value several divisors accept (104)
\* and values only a later divisor accepts (130, 251)
WindowValues == {0, 49, 50, 104, 130, 141, 251, 300, 301, 350}

\* a buffer may end in one unpaired byte
Tails == {<<>>, <<1>>}

\* the bytes of a sequence of 16-bit little-endian values
Bytes(ws) ==
    [k \in 1..(2 * Len(ws)) |->
        IF k % 2 = 1 THEN ws[(k + 1) \div 2] % 256 ELSE ws[k \div 2] \div 256]

Buffers ==
    {Bytes(ws) \o t : ws \in UNION {[1..n -> WindowValues] : n \in 0..MaxWindows},
                      t \in Tails}

\* what the second file may hold besides the bytes of the first
OtherBuffers == {<<>>, Bytes(<<104>>), Bytes(<<0, 300>>)}

Analyzers == {"sleep", "cpap", "timeline"}

\* mobile_reference as __init__ sets it: avg_pressure 8.0, p95_pressure 9.5
DefaultReference ==
    [avg_pressure |-> [n |-> 8, d |-> 1], p95_pressure |-> [n |-> 19, d |-> 2]]

\* the shorter divisor list for every analyzer
DivisorsShort(a) ==
    <<[n |-> 25, d |-> 2], [n |-> 13, d |-> 1], [n |-> 27, d |-> 2],
      [n |-> 14, d |-> 1]>>

\* the candidate divisors, in the order the code lists them
Divisors(a) ==
    IF a = "sleep"
    THEN <<[n |-> 25, d |-> 2], [n |-> 13, d |-> 1], [n |-> 27, d |-> 2],
           [n |-> 14, d |-> 1], [n |-> 15, d |-> 1]>>
    ELSE <<[n |-> 25, d |-> 2], [n |-> 13, d |-> 1], [n |-> 27, d |-> 2],
           [n |-> 14, d |-> 1]>>

\* the narrowed band opens 3 below the reference mean
BandLoWide(a) ==
    IF a = "cpap" THEN RSub(mobile_reference.avg_pressure, FromInt(3))
    ELSE FromInt(4)

BandLo(a) ==
    IF a = "cpap" THEN RSub(mobile_reference.avg_pressure, FromInt(2))
    ELSE FromInt(4)

BandHi(a) ==
    IF a = "sleep" THEN FromInt(20)
    ELSE IF a = "cpap" THEN RAdd(mobile_reference.avg_pressure, FromInt(2))
    ELSE FromInt(25)

\* the step of range(0, len(data)-1, 2)
Stride == 2

\* the timeline stops once it holds more than this many readings
TimelineLimit == 10000

\* the nominal file size of _bytes_to_time_estimate: 16777216 = 8 * 2097152
NominalHourBytes == 2097152

\* data[i:j] of Python, i and j counted from 0
Slice(bytes, from, to) ==
    SubSeq(bytes, from + 1, IF to > Len(bytes) THEN Len(bytes) ELSE to)

\* the two bytes read high byte first
UnpackHBig(w) == IF Len(w) # 2 THEN -1 ELSE 256 * w[1] + w[2]

\* struct.unpack('<H', w)[0]; it raises struct.error, written -1 here, unless
\* w holds exactly 2 bytes
UnpackH(w) == IF Len(w) # 2 THEN -1 ELSE w[1] + 256 * w[2]

\* the hour left as it is past midnight
BytesToTimeEstimateNoWrap(byte_position) ==
    LET whole == byte_position \div NominalHourBytes
        rest  == byte_position % NominalHourBytes
    IN  [hh |-> 22 + whole, mm |-> (rest * 60) \div NominalHourBytes]

\* _bytes_to_time_estimate: 22:00 plus 8 hours per 16777216 bytes,
\* formatted HH:MM
BytesToTimeEstimate(byte_position) ==
    LET whole == byte_position \div NominalHourBytes
        rest  == byte_position % NominalHourBytes
    IN  [hh |-> (22 + whole) % 24, mm |-> (rest * 60) \div NominalHourBytes]

\* what one window appends: the reading, and in the timeline its record
Reading(a, pressure, offset) ==
    IF a = "timeline"
    THEN [time |-> BytesToTimeEstimate(offset), pressure |-> pressure,
          file_position |-> offset]
    ELSE pressure

\* the divisor loop without its break: every divisor that fits appends
RECURSIVE TryDivisorsNoBreak(_, _, _, _)
TryDivisorsNoBreak(a, val, offset, k) ==
    IF k > Len(Divisors(a)) THEN <<>>
    ELSE LET pressure == RDiv(FromInt(val), Divisors(a)[k])
         IN  (IF RLe(BandLo(a), pressure) /\ RLe(pressure, BandHi(a))
              THEN <<Reading(a, pressure, offset)>> ELSE <<>>)
             \o TryDivisorsNoBreak(a, val, offset, k + 1)

\* for divisor in [...]: the first divisor that puts val / divisor inside the
\* band appends one reading and breaks; k is the next divisor to try
RECURSIVE TryDivisors(_, _, _, _)
TryDivisors(a, val, offset, k) ==
    IF k > Len(Divisors(a)) THEN <<>>
    ELSE LET pressure == RDiv(FromInt(val), Divisors(a)[k])
         IN  IF RLe(BandLo(a), pressure) /\ RLe(pressure, BandHi(a))
             THEN <<Reading(a, pressure, offset)>>
             ELSE TryDivisors(a, val, offset, k + 1)

\* the body of the window loop at offset `offset`: unpack, try the divisors;
\* an exception skips the window
WindowReadings(a, bytes, offset) ==
    LET val == UnpackH(Slice(bytes, offset, offset + 2))
    IN  IF val < 0 THEN <<>> ELSE TryDivisors(a, val, offset, 1)

\* range(0, len(data), 2): the last byte starts a window too
InRangeToEnd(offset, bytes) == offset < Len(bytes)

\* whether range(0, len(data)-1, 2) still yields offset
InRange(offset, bytes) == offset < Len(bytes) - 1

\* the entry stored for a file that produced readings
FileEntry(a, ps) ==
    IF a = "sleep"
    THEN [pressures |-> ps, mean |-> Mean(ps), median |-> Median(ps),
          p95 |-> Percentile(ps, 95), p5 |-> Percentile(ps, 5),
          std |-> Std(ps), count |-> Len(ps)]
    ELSE IF a = "cpap" THEN [count |-> Len(ps), mean |-> Mean(ps)]
    ELSE [pressures |-> ps]

--------------------------------------------------------------------------
(* The event decoder of detailed_event_analyzer.py.                       *)

\* the table with the ten respiratory and therapy codes only
event_typesTen ==
    (1 :> "Obstructive Apnea") @@ (2 :> "Hypopnea") @@ (3 :> "Central Apnea")
    @@ (4 :> "Mixed Apnea") @@ (5 :> "Flow Limitation")
    @@ (6 :> "RERA (Respiratory Effort Related Arousal)") @@ (7 :> "Large Leak")
    @@ (8 :> "Mask Off") @@ (9 :> "Clear Airway") @@ (10 :> "Periodic Breathing")

\* self.event_types
event_types ==
    (1 :> "Obstructive Apnea") @@ (2 :> "Hypopnea") @@ (3 :> "Central Apnea")
    @@ (4 :> "Mixed Apnea") @@ (5 :> "Flow Limitation")
    @@ (6 :> "RERA (Respiratory Effort Related Arousal)") @@ (7 :> "Large Leak")
    @@ (8 :> "Mask Off") @@ (9 :> "Clear Airway") @@ (10 :> "Periodic Breathing")
    @@ (170 :> "Marker/Timestamp") @@ (255 :> "Session End")

\* the patterns of the second pass, in the order the code lists them
patterns == <<<<255, 255, 0, 0>>, <<0, 0, 255, 255>>, <<170, 187, 204, 221>>>>

AaaaMarker == <<170, 170, 170, 170>>

HexDigitsUpper ==
    <<"0", "1", "2", "3", "4", "5", "6", "7", "8", "9", "A", "B", "C", "D", "E", "F">>

HexDigitsLower ==
    <<"0", "1", "2", "3", "4", "5", "6", "7", "8", "9", "a", "b", "c", "d", "e", "f">>

\* f"{v:02X}" of a byte
Hex2Upper(v) == HexDigitsUpper[v \div 16 + 1] \o HexDigitsUpper[(v % 16) + 1]

\* bytes.hex()
RECURSIVE HexLower(_)
HexLower(bytes) ==
    IF bytes = <<>> THEN ""
    ELSE HexDigitsLower[Head(bytes) \div 16 + 1]
         \o HexDigitsLower[(Head(bytes) % 16) + 1] \o HexLower(Tail(bytes))

\* struct.unpack('<I', w)[0] of 4 bytes, kept in two parts, the value being
\* low + 16777216 * high, so that every number stays below 2^31
UnpackI(w) == [low |-> w[1] + 256 * w[2] + 65536 * w[3], high |-> w[4]]

\* _timestamp_to_time: the value modulo 86400 seconds, formatted HH:MM;
\* 16777216 % 86400 = 15616
TimestampToTime(timestamp_val) ==
    LET seconds_since_start ==
            ((timestamp_val.low % 86400) + ((timestamp_val.high * 15616) % 86400)) % 86400
    IN  [hh |-> seconds_since_start \div 3600,
         mm |-> (seconds_since_start % 3600) \div 60]

\* the block decoder returning an event only for a known type with a
\* duration above 0
ParseEventBlockBoth(block, position, pattern_type) ==
    IF Len(block) < 8 THEN <<>>
    ELSE LET timestamp_val  == UnpackI(Slice(block, 0, 4))
             event_type_val == block[5]
             duration_val   == UnpackH(Slice(block, 5, 7))
             known          == event_type_val \in DOMAIN event_types
             event ==
                 [timestamp |-> TimestampToTime(timestamp_val),
                  type |-> IF known THEN event_types[event_type_val]
                           ELSE "Unknown_0x" \o Hex2Upper(event_type_val),
                  severity |-> IF duration_val > 30 THEN "Severe"
                               ELSE IF duration_val > 15 THEN "Moderate"
                               ELSE IF duration_val > 5 THEN "Mild"
                               ELSE "Minimal",
                  duration |-> duration_val,
                  raw_type_code |-> "0x" \o Hex2Upper(event_type_val),
                  source |-> pattern_type \o "_marker",
                  file_position |-> position,
                  raw_data |-> HexLower(Slice(block, 0, 8))]
         IN  IF known /\ duration_val > 0 THEN <<event>> ELSE <<>>

\* _parse_event_block: the event of a block, or nothing
ParseEventBlock(block, position, pattern_type) ==
    IF Len(block) < 8 THEN <<>>
    ELSE LET timestamp_val  == UnpackI(Slice(block, 0, 4))
             event_type_val == block[5]
             duration_val   == UnpackH(Slice(block, 5, 7))
             known          == event_type_val \in DOMAIN event_types
             event ==
                 [timestamp |-> TimestampToTime(timestamp_val),
                  type |-> IF known THEN event_types[event_type_val]
                           ELSE "Unknown_0x" \o Hex2Upper(event_type_val),
                  severity |-> IF duration_val > 30 THEN "Severe"
                               ELSE IF duration_val > 15 THEN "Moderate"
                               ELSE IF duration_val > 5 THEN "Mild"
                               ELSE "Minimal",
                  duration |-> duration_val,
                  raw_type_code |-> "0x" \o Hex2Upper(event_type_val),
                  source |-> pattern_type \o "_marker",
                  file_position |-> position,
                  raw_data |-> HexLower(Slice(block, 0, 8))]
         IN  IF known \/ duration_val > 0 THEN <<event>> ELSE <<>>

\* the members of a set of numbers in ascending order
RECURSIVE Ascending(_)
Ascending(S) ==
    IF S = {} THEN <<>>
    ELSE LET m == CHOOSE x \in S : \A y \in S : x <= y
         IN  <<m>> \o Ascending(S \ {m})

\* the block handed to the decoder starts behind the marker
RECURSIVE MarkerEventsBehind(_, _)
MarkerEventsBehind(bytes, found) ==
    IF found = <<>> THEN <<>>
    ELSE ParseEventBlock(Slice(bytes, Head(found) + 4, Head(found) + 36), Head(found), "aaaa")
         \o MarkerEventsBehind(bytes, Tail(found))

\* _parse_aaaa_markers: for i in range(0, len(data) - 4, 4), a marker at i
\* with i + 32 < len(data) gives the event of data[i:i+32]
RECURSIVE MarkerEvents(_, _)
MarkerEvents(bytes, found) ==
    IF found = <<>> THEN <<>>
    ELSE ParseEventBlock(Slice(bytes, Head(found), Head(found) + 32), Head(found), "aaaa")
         \o MarkerEvents(bytes, Tail(found))

ParseAaaaMarkers(bytes) ==
    MarkerEvents(bytes,
        Ascending({p \in 0..(Len(bytes) - 5) :
                      /\ p % 4 = 0
                      /\ Slice(bytes, p, p + 4) = AaaaMarker
                      /\ p + 32 < Len(bytes)}))

\* data.find(pattern, pos)
Find(bytes, pattern, pos) ==
    LET hits == {p \in pos..(Len(bytes) - Len(pattern)) :
                    Slice(bytes, p, p + Len(pattern)) = pattern}
    IN  IF hits = {} THEN -1 ELSE CHOOSE x \in hits : \A y \in hits : x <= y

\* the while loop going on behind the 16-byte block of a hit
RECURSIVE PatternEventsPastBlock(_, _, _)
PatternEventsPastBlock(bytes, pattern, pos) ==
    LET found == Find(bytes, pattern, pos)
    IN  IF found = -1 THEN <<>>
        ELSE (IF found + 16 < Len(bytes)
              THEN ParseEventBlock(Slice(bytes, found, found + 16), found,
                                   HexLower(pattern))
              ELSE <<>>)
             \o PatternEventsPastBlock(bytes, pattern, found + 16)

\* the while loop of one pattern, from pos on
RECURSIVE PatternEvents(_, _, _)
PatternEvents(bytes, pattern, pos) ==
    LET found == Find(bytes, pattern, pos)
    IN  IF found = -1 THEN <<>>
        ELSE (IF found + 16 < Len(bytes)
              THEN ParseEventBlock(Slice(bytes, found, found + 16), found,
                                   HexLower(pattern))
              ELSE <<>>)
             \o PatternEvents(bytes, pattern, found + Len(pattern))

\* _parse_event_patterns
ParseEventPatterns(bytes) ==
    PatternEvents(bytes, patterns[1], 0) \o PatternEvents(bytes, patterns[2], 0)
    \o PatternEvents(bytes, patterns[3], 0)

\* the step of range(0, len(data) - 1, 128) in the third pass
InferenceStride == 128

\* the third pass needs this many accepted readings
MinInferenceReadings == 10

\* the sampling loop trying the divisors of the timeline in turn
RECURSIVE SparseReadingsMulti(_, _)
SparseReadingsMulti(bytes, offset) ==
    IF ~(offset < Len(bytes) - 1) THEN <<>>
    ELSE LET got == WindowReadings("timeline", bytes, offset)
         IN  (IF got # <<>>
              THEN <<[pressure |-> got[1].pressure, timestamp |-> offset]>>
              ELSE <<>>)
             \o SparseReadingsMulti(bytes, offset + InferenceStride)

\* the first loop of _infer_events_from_pressure from offset on: pressures and
\* timestamps, kept side by side as one list of pairs
RECURSIVE SparseReadings(_, _)
SparseReadings(bytes, offset) ==
    IF ~(offset < Len(bytes) - 1) THEN <<>>
    ELSE LET val      == UnpackH(Slice(bytes, offset, offset + 2))
             pressure == RDiv(FromInt(val), FromInt(13))
         IN  (IF val >= 0 /\ RLe(FromInt(4), pressure) /\ RLe(pressure, FromInt(25))
              THEN <<[pressure |-> pressure, timestamp |-> offset]>>
              ELSE <<>>)
             \o SparseReadings(bytes, offset + InferenceStride)

\* the loop over np.where(pressure_diff > 3.0)[0], idx counted from 0
RECURSIVE IncreaseEvents(_, _)
IncreaseEvents(readings, idx) ==
    IF idx > Len(readings) - 2 THEN <<>>
    ELSE LET pressure_diff == RSub(readings[idx + 2].pressure, readings[idx + 1].pressure)
         IN  (IF RLt(FromInt(3), pressure_diff) /\ idx < Len(readings) - 1
              THEN <<[timestamp |-> BytesToTimeEstimate(readings[idx + 1].timestamp),
                      type |-> "Inferred Apnea Response",
                      severity |-> IF RLt(FromInt(5), pressure_diff) THEN "Moderate"
                                   ELSE "Mild",
                      pressure_before |-> readings[idx + 1].pressure,
                      pressure_after |-> readings[idx + 2].pressure,
                      pressure_increase |-> pressure_diff,
                      source |-> "pressure_analysis",
                      file_position |-> readings[idx + 1].timestamp]>>
              ELSE <<>>)
             \o IncreaseEvents(readings, idx + 1)

\* the third pass going on however few readings it accepted
InferEventsFromPressureAny(bytes) ==
    IncreaseEvents(SparseReadings(bytes, 0), 0)

\* _infer_events_from_pressure
InferEventsFromPressure(bytes) ==
    LET readings == SparseReadings(bytes, 0)
    IN  IF Len(readings) < MinInferenceReadings THEN <<>>
        ELSE IncreaseEvents(readings, 0)

\* the order of the HH:MM strings
TimeKey(t) == t.hh * 60 + t.mm

\* sorted(events, key=lambda x: x['timestamp']): a stable sort, events with
\* equal timestamps keep their order
RECURSIVE SortInto(_, _)
SortInto(sorted, rest) ==
    IF rest = <<>> THEN sorted
    ELSE LET e      == Head(rest)
             before == SelectSeq(sorted,
                           LAMBDA x : TimeKey(x.timestamp) <= TimeKey(e.timestamp))
             after  == SelectSeq(sorted,
                           LAMBDA x : TimeKey(x.timestamp) > TimeKey(e.timestamp))
         IN  SortInto(before \o <<e>> \o after, Tail(rest))

SortedByTimestamp(evs) == SortInto(<<>>, evs)

\* the three passes put together and returned as they come
ExtractEventsUnsorted(bytes) ==
    ParseAaaaMarkers(bytes) \o ParseEventPatterns(bytes)
    \o InferEventsFromPressure(bytes)

\* _extract_events_from_file on the bytes read: three passes, then the sort
ExtractEvents(bytes) ==
    SortedByTimestamp(ParseAaaaMarkers(bytes) \o ParseEventPatterns(bytes)
                      \o InferEventsFromPressure(bytes))

\* most 128-byte segments in a buffer handed to the event decoder
MaxSegments == 10

Zeros(n) == [k \in 1..n |-> 0]

\* a 32-byte block that opens with the 0xAAAA marker
MarkerBlock(type, duration) ==
    AaaaMarker \o <<type, duration % 256, duration \div 256>> \o Zeros(25)

\* a 16-byte block that opens with one of the patterns
PatternBlock(pattern, type, duration) ==
    pattern \o <<type, duration % 256, duration \div 256>> \o Zeros(9)

\* one segment: a 16-bit value at its start, a block at its byte 4
Segment(val, block) ==
    Bytes(<<val>>) \o <<0, 0>> \o block \o Zeros(InferenceStride - 4 - Len(block))

\* the values at the segment starts, taken in turn: no rise; rises of 56/13
\* and 96/13 with one value that only the divisor 12.5 would put in band;
\* too few values in band, with values that other divisors would accept
Profiles ==
    {<<104>>, <<104, 104, 160, 104, 200, 50>>, <<104, 50, 200, 330, 104, 0>>}

\* a marker block with a pattern inside it: both passes read the same bytes
OverlapBuffer ==
    AaaaMarker \o <<1, 20, 0, 0>> \o PatternBlock(patterns[1], 2, 40) \o Zeros(9)

\* the blocks of the segments, taken in turn: none; an Obstructive Apnea
\* marker and a Hypopnea pattern; a pattern block that is no event, a marker
\* of unknown type and a marker right behind a reverse pattern; blocks with
\* the codes 0xAA and 0xFF and a code next to the table; a marker block with
\* a pattern inside it
Arrangements ==
    {<< <<>> >>,
     << MarkerBlock(1, 20), <<>>, PatternBlock(patterns[1], 2, 40) >>,
     << PatternBlock(patterns[3], 0, 0), MarkerBlock(153, 3),
        PatternBlock(patterns[2], 5, 6) >>,
     << MarkerBlock(170, 3), PatternBlock(patterns[1], 255, 0),
        MarkerBlock(11, 1) >>,
     << OverlapBuffer >>}

RECURSIVE Segments(_, _, _)
Segments(n, profile, blocks) ==
    IF n = 0 THEN <<>>
    ELSE Segments(n - 1, profile, blocks)
         \o Segment(profile[((n - 1) % Len(profile)) + 1],
                    blocks[((n - 1) % Len(blocks)) + 1])

\* n segments and one last 16-bit value
EventBuffer(n, profile, blocks) ==
    Segments(n, profile, blocks) \o Bytes(<<profile[(n % Len(profile)) + 1]>>)

\* buffers that end at or right behind a 32-byte marker block
ShortEventBuffers == {<<>>, MarkerBlock(1, 20), MarkerBlock(1, 20) \o <<0>>}

\* the first pattern twice in a row, with the reverse pattern across the two,
\* then the third pattern as a Hypopnea block and once more 16 bytes before
\* the end
RepeatBuffer ==
    patterns[1] \o patterns[1] \o <<3, 9, 0>> \o Zeros(3)
    \o PatternBlock(patterns[3], 2, 7) \o patterns[3] \o Zeros(12)

EventBuffers ==
    {EventBuffer(n, profile, blocks) :
        n \in {1, MaxSegments}, profile \in Profiles, blocks \in Arrangements}
    \cup ShortEventBuffers \cup {OverlapBuffer, RepeatBuffer}

\* what the second file may hold besides the bytes of the first
OtherEventBuffers ==
    {<<>>, Segment(104, MarkerBlock(7, 31) \o MarkerBlock(9, 12))}

EventsInit ==
    /\ analyzer = "events"
    /\ \E first \in EventBuffers : \E second \in {first} \cup OtherEventBuffers :
           disk = <<first, second>>
    /\ fileIdx = 1
    /\ data = <<>>
    /\ i = 0
    /\ pressures = <<>>
    /\ examined = <<>>
    /\ all_pressures = <<>>
    /\ per_file = <<>>
    /\ runs = <<>>
    /\ pc = "next"
    /\ mobile_reference = DefaultReference
    /\ call = NoCall
    /\ result = Pending

DecodeInit ==
    /\ analyzer \in Analyzers
    /\ \E first \in Buffers : \E second \in {first} \cup OtherBuffers :
           disk = <<first, second>>
    /\ fileIdx = 1
    /\ data = <<>>
    /\ i = 0
    /\ pressures = <<>>
    /\ examined = <<>>
    /\ all_pressures = <<>>
    /\ per_file = <<>>
    /\ runs = <<>>
    /\ pc = "next"
    /\ mobile_reference = DefaultReference
    /\ call = NoCall
    /\ result = Pending

\* the per-file list is not started afresh
OpenFileKeep ==
    /\ pc = "next"
    /\ analyzer \in Analyzers
    /\ fileIdx <= Len(Files)
    /\ data' = disk[fileIdx]
    /\ pressures' = pressures
    /\ examined' = <<>>
    /\ i' = 0
    /\ pc' = "scan"
    /\ UNCHANGED <<resultVars, mobile_reference, analyzer, disk, fileIdx, all_pressures, per_file, runs>>
    /\ UNCHANGED callVars

\* for filename in files: open the file, read it, start the window loop
OpenFile ==
    /\ pc = "next"
    /\ analyzer \in Analyzers
    /\ fileIdx <= Len(Files)
    /\ data' = disk[fileIdx]
    /\ pressures' = <<>>
    /\ examined' = <<>>
    /\ i' = 0
    /\ pc' = "scan"
    /\ UNCHANGED <<resultVars, mobile_reference, analyzer, disk, fileIdx, all_pressures, per_file, runs>>
    /\ UNCHANGED callVars

\* one iteration of the window loop
ScanWindow ==
    /\ pc = "scan"
    /\ InRange(i, data)
    /\ LET got == WindowReadings(analyzer, data, i)
       IN  /\ pressures' = pressures \o got
           /\ examined' = Append(examined,
                  [offset |-> i, window |-> Slice(data, i, i + 2), emitted |-> got])
           /\ IF analyzer = "timeline" /\ Len(pressures \o got) > TimelineLimit
              THEN pc' = "store" /\ i' = i
              ELSE pc' = "scan" /\ i' = i + Stride
    /\ UNCHANGED <<resultVars, mobile_reference, analyzer, disk, fileIdx, data, all_pressures, per_file, runs>>
    /\ UNCHANGED callVars

\* the range is exhausted
LoopEnd ==
    /\ pc = "scan"
    /\ ~InRange(i, data)
    /\ pc' = "store"
    /\ UNCHANGED <<resultVars, mobile_reference, analyzer, disk, fileIdx, data, i, pressures, examined,
                   all_pressures, per_file, runs>>
    /\ UNCHANGED callVars

\* after the loop: a file with readings gets its entry and extends the
\* aggregate list; the timeline returns its list as it is
StoreFile ==
    /\ pc = "store"
    /\ IF pressures # <<>> \/ analyzer = "timeline"
       THEN /\ per_file' = per_file @@ (Files[fileIdx] :> FileEntry(analyzer, pressures))
            /\ all_pressures' = IF analyzer = "timeline" THEN all_pressures
                                ELSE all_pressures \o pressures
       ELSE UNCHANGED <<per_file, all_pressures>>
    /\ runs' = Append(runs, pressures)
    /\ fileIdx' = fileIdx + 1
    /\ pc' = "next"
    /\ UNCHANGED <<resultVars, mobile_reference, analyzer, disk, data, i, pressures, examined>>
    /\ UNCHANGED callVars

\* the file list is exhausted: return the aggregate and the per-file entries
Finish ==
    /\ pc = "next"
    /\ fileIdx > Len(Files)
    /\ pc' = "done"
    /\ UNCHANGED <<resultVars, mobile_reference, analyzer, disk, fileIdx, data, i, pressures, examined,
                   all_pressures, per_file, runs>>
    /\ UNCHANGED callVars

\* events = self._extract_events_from_file(filename) for the next file
ExtractEventsFromFile ==
    /\ pc = "next"
    /\ analyzer = "events"
    /\ fileIdx <= Len(Files)
    /\ data' = disk[fileIdx]
    /\ runs' = Append(runs, ExtractEvents(disk[fileIdx]))
    /\ fileIdx' = fileIdx + 1
    /\ UNCHANGED <<resultVars, mobile_reference, analyzer, disk, i, pressures, examined,
                   all_pressures, per_file, pc>>
    /\ UNCHANGED callVars

DecodeNext == OpenFile \/ ScanWindow \/ LoopEnd \/ StoreFile \/ Finish

\* nothing analysed yet
ResultsIdle ==
    /\ analysis = Pending
    /\ in_range = Pending
    /\ correlation = Pending
    /\ values = <<>>
    /\ trend = Pending
    /\ mean_pressure = FromInt(0)
    /\ pressure_level = Pending

Init == (DecodeInit \/ EventsInit) /\ ResultsIdle

Next == DecodeNext \/ ExtractEventsFromFile

Spec == Init /\ [][Next]_vars

--------------------------------------------------------------------------
(* The summary statistics and the therapy assessment of                   *)
(* bmc_sleep_analyzer.py.                                                 *)

\* most readings in an aggregate list handed to the analysis
MaxSamples == 4

\* the readings such a list is made of: decoder outputs 4.0, 5.92, 6.0, 12.0,
\* 12.08 and 20.0 (the values 50, 74, 75, 150, 151 and 250 over 12.5)
SampleValues ==
    {[n |-> 4, d |-> 1], [n |-> 148, d |-> 25], [n |-> 6, d |-> 1],
     [n |-> 12, d |-> 1], [n |-> 302, d |-> 25], [n |-> 20, d |-> 1]}

SampleLists == UNION {[1..n -> SampleValues] : n \in 0..MaxSamples}

\* a division by zero raises
ZeroDivisionError == [error |-> "ZeroDivisionError"]

\* (count / total) * 100
Percent(count, total) ==
    IF total = 0 THEN ZeroDivisionError
    ELSE RMul(RDiv(FromInt(count), FromInt(total)), FromInt(100))

\* sum(1 for p in pressures if min_val <= p <= max_val)
CountInRange(ps, min_val, max_val) ==
    Cardinality({k \in 1..Len(ps) : RLe(min_val, ps[k]) /\ RLe(ps[k], max_val)})

\* comparisons with a standard deviation kept as the root of its variance
SqrtLt(s, bound) == RLt(s.sqrt_of, RMul(bound, bound))

\* the level with its lower bound open: 6.0 < mean
AssessPressureLevelOpen(mean) ==
    IF RLt(FromInt(6), mean) /\ RLe(mean, FromInt(12)) THEN "optimal"
    ELSE IF RLe(FromInt(4), mean) /\ RLt(mean, FromInt(6)) THEN "low_normal"
    ELSE IF RLt(FromInt(12), mean) /\ RLe(mean, FromInt(15)) THEN "high_normal"
    ELSE "requires_adjustment"

AssessPressureLevel(mean) ==
    IF RLe(FromInt(6), mean) /\ RLe(mean, FromInt(12)) THEN "optimal"
    ELSE IF RLe(FromInt(4), mean) /\ RLt(mean, FromInt(6)) THEN "low_normal"
    ELSE IF RLt(FromInt(12), mean) /\ RLe(mean, FromInt(15)) THEN "high_normal"
    ELSE "requires_adjustment"

AssessPressureStability(std_dev) ==
    IF SqrtLt(std_dev, FromInt(2)) THEN "excellent"
    ELSE IF SqrtLt(std_dev, FromInt(3)) THEN "good"
    ELSE "variable"

AssessTitrationQuality(stats) ==
    LET pressure_range == RSub(stats.max, stats.min)
    IN  IF RLt(pressure_range, FromInt(5)) THEN "well_titrated"
        ELSE IF RLt(pressure_range, FromInt(8)) THEN "acceptable"
        ELSE "wide_range"

\* on an empty list the division raises
AssessTherapeuticWindow(ps) ==
    LET percentage == Percent(CountInRange(ps, FromInt(6), FromInt(15)), Len(ps))
    IN  IF percentage = ZeroDivisionError THEN ZeroDivisionError
        ELSE [percentage_in_window |-> percentage,
              assessment |-> IF RLt(FromInt(90), percentage) THEN "excellent"
                             ELSE IF RLt(FromInt(80), percentage) THEN "good"
                             ELSE "needs_improvement"]

\* the time-in-range helper without its emptiness test
CalculateTimeInRangeUnguarded(ps, min_val, max_val) ==
    Percent(CountInRange(ps, min_val, max_val), Len(ps))

\* (in_range / len(pressures)) * 100 if pressures else 0
CalculateTimeInRange(ps, min_val, max_val) ==
    IF ps # <<>> THEN Percent(CountInRange(ps, min_val, max_val), Len(ps))
    ELSE FromInt(0)

\* the readings above Q3 + 1.5 * IQR; on an empty list the function raises
AnalyzePressurePeaks(ps) ==
    IF ps = <<>> THEN ZeroDivisionError
    ELSE LET q75 == Percentile(ps, 75)
             q25 == Percentile(ps, 25)
             iqr == RSub(q75, q25)
             upper_bound == RAdd(q75, RMul([n |-> 3, d |-> 2], iqr))
             peaks == SelectSeq(ps, LAMBDA x : RLt(upper_bound, x))
         IN  [peak_count |-> Len(peaks),
              peak_percentage |-> Percent(Len(peaks), Len(ps)),
              highest_peak |-> IF peaks # <<>> THEN Max(peaks) ELSE FromInt(0)]

Statistics(ps) ==
    [mean |-> Mean(ps), median |-> Median(ps), p95 |-> Percentile(ps, 95),
     p5 |-> Percentile(ps, 5), std |-> Std(ps), min |-> Min(ps), max |-> Max(ps)]

\* _analyze_pressure_therapy
PressureTherapy(ps) ==
    IF ps = <<>> THEN [status |-> "No pressure data available"]
    ELSE LET statistics == Statistics(ps)
         IN  [statistics |-> statistics,
              therapy_assessment |->
                  [pressure_level |-> AssessPressureLevel(statistics.mean),
                   pressure_stability |-> AssessPressureStability(statistics.std),
                   titration_quality |-> AssessTitrationQuality(statistics),
                   therapeutic_window |-> AssessTherapeuticWindow(ps)],
              pressure_distribution |->
                  [time_in_optimal_range |->
                       CalculateTimeInRange(ps, FromInt(6), FromInt(12)),
                   time_above_15 |->
                       CalculateTimeInRange(ps, FromInt(15), FromInt(25)),
                   time_below_6 |->
                       CalculateTimeInRange(ps, FromInt(0), FromInt(6)),
                   pressure_peaks |-> AnalyzePressurePeaks(ps)],
              optimization_insights |-> <<>>]

\* the bands _calculate_time_in_range is called with
RangeCalls == {<<FromInt(6), FromInt(12)>>, <<FromInt(15), FromInt(25)>>,
               <<FromInt(0), FromInt(6)>>}

\* the state once the extraction has returned the aggregate list ps; the
\* files it came from are summed up in one per-file entry
Extracted(a, ps) ==
    /\ analyzer = a
    /\ disk = <<>>
    /\ fileIdx = Len(Files) + 1
    /\ data = <<>>
    /\ i = 0
    /\ pressures = <<>>
    /\ examined = <<>>
    /\ all_pressures = ps
    /\ per_file = IF ps = <<>> THEN <<>> ELSE (Files[1] :> FileEntry(a, ps))
    /\ runs = <<>>
    /\ pc = "done"

TherapyInit ==
    /\ CallIdle
    /\ \E ps \in SampleLists : Extracted("sleep", ps)
    /\ mobile_reference = DefaultReference
    /\ ResultsIdle

\* analysis_results['pressure_analysis'] = self._analyze_pressure_therapy(...)
AnalyzePressureTherapy ==
    /\ pc = "done"
    /\ analyzer = "sleep"
    /\ analysis = Pending
    /\ analysis' = PressureTherapy(all_pressures)
    /\ UNCHANGED <<pc, analyzer, disk, fileIdx, data, i, pressures, examined,
                   all_pressures, per_file, runs, mobile_reference>>
    /\ UNCHANGED <<in_range, correlation, values, trend, mean_pressure,
                   pressure_level>>
    /\ UNCHANGED callVars

\* a call of _calculate_time_in_range on the aggregate list
TimeInRangeCall ==
    /\ pc = "done"
    /\ analyzer = "sleep"
    /\ in_range = Pending
    /\ \E band \in RangeCalls :
          in_range' = [min_val |-> band[1], max_val |-> band[2],
                       result |-> CalculateTimeInRange(all_pressures, band[1], band[2])]
    /\ UNCHANGED <<pc, analyzer, disk, fileIdx, data, i, pressures, examined,
                   all_pressures, per_file, runs, mobile_reference>>
    /\ UNCHANGED <<analysis, correlation, values, trend, mean_pressure,
                   pressure_level>>
    /\ UNCHANGED callVars

TherapyNext == AnalyzePressureTherapy \/ TimeInRangeCall

SpecTherapy == TherapyInit /\ [][TherapyNext]_vars

--------------------------------------------------------------------------
(* The trend functions of bmc_sleep_analyzer.py, applied to a tuple of    *)
(* file means.                                                            *)

\* most file means in a tuple handed to the trend functions
MaxPoints == 5

\* the means a tuple is made of, one palette per tuple: means around 8.0 a
\* tenth apart; two pairs whose tuples of five reach a coefficient of
\* variation of exactly 0.1 and 0.2; means far apart; a pair 1.5 apart,
\* whose tuples reach a difference of exactly 0.5 between the first three
\* and the last three
Palettes ==
    {{[n |-> 79, d |-> 10], [n |-> 8, d |-> 1], [n |-> 81, d |-> 10],
      [n |-> 41, d |-> 5]},
     {[n |-> 38, d |-> 5], [n |-> 48, d |-> 5]},
     {[n |-> 36, d |-> 5], [n |-> 56, d |-> 5]},
     {[n |-> 4, d |-> 1], [n |-> 8, d |-> 1], [n |-> 12, d |-> 1]},
     {[n |-> 8, d |-> 1], [n |-> 19, d |-> 2]}}

\* ten file means around 8.0
TenMeans ==
    <<[n |-> 8, d |-> 1], [n |-> 81, d |-> 10], [n |-> 8, d |-> 1],
      [n |-> 79, d |-> 10], [n |-> 41, d |-> 5], [n |-> 8, d |-> 1],
      [n |-> 81, d |-> 10], [n |-> 79, d |-> 10], [n |-> 8, d |-> 1],
      [n |-> 8, d |-> 1]>>

MeanTuples ==
    UNION {[1..n -> palette] : n \in 0..MaxPoints, palette \in Palettes}
    \cup {TenMeans}

\* the string _calculate_trend returns in place of a slope
InsufficientData == [str |-> "Insufficient data"]

\* the even numbers 0, 2, 4, ...
ArangeEven(n) == [k \in 1..n |-> FromInt(2 * (k - 1))]

\* x = np.arange(len(values))
Arange(n) == [k \in 1..n |-> FromInt(k - 1)]

\* the sum of the products x[k] * y[k]
RECURSIVE SumProd(_, _)
SumProd(xs, ys) ==
    IF xs = <<>> THEN FromInt(0)
    ELSE RAdd(RMul(Head(xs), Head(ys)), SumProd(Tail(xs), Tail(ys)))

\* np.polyfit(x, y, 1)[0]: the slope of the least-squares line
PolyfitSlope(x, y) ==
    LET n == FromInt(Len(x))
    IN  RDiv(RSub(RMul(n, SumProd(x, y)), RMul(Sum(x), Sum(y))),
             RSub(RMul(n, SumProd(x, x)), RMul(Sum(x), Sum(x))))

CalculateTrend(vs) ==
    IF Len(vs) < 3 THEN InsufficientData
    ELSE PolyfitSlope(Arange(Len(vs)), vs)

\* the direction with the stable band closed: abs(slope) <= 0.1
AssessTrendDirectionClosed(vs) ==
    LET slope == CalculateTrend(vs)
    IN  IF slope = InsufficientData THEN slope.str
        ELSE IF RLe(RAbs(slope), [n |-> 1, d |-> 10]) THEN "Stable"
        ELSE IF RLt(FromInt(0), slope) THEN "Increasing"
        ELSE "Decreasing"

AssessTrendDirection(vs) ==
    LET slope == CalculateTrend(vs)
    IN  IF slope = InsufficientData THEN slope.str
        ELSE IF RLt(RAbs(slope), [n |-> 1, d |-> 10]) THEN "Stable"
        ELSE IF RLt(FromInt(0), slope) THEN "Increasing"
        ELSE "Decreasing"

\* cv = np.std(values) / np.mean(values), compared with a bound; the mean of
\* the tuple is positive
CvLt(vs, bound) == SqrtLt(Std(vs), RMul(bound, Mean(vs)))

\* the stability with the minimum count of the direction
AssessLongTermStabilityFromThree(vs) ==
    IF Len(vs) < 3 THEN "Insufficient data for trend analysis"
    ELSE IF CvLt(vs, [n |-> 1, d |-> 10]) THEN "Highly Stable"
    ELSE IF CvLt(vs, [n |-> 1, d |-> 5]) THEN "Stable"
    ELSE "Variable"

AssessLongTermStability(vs) ==
    IF Len(vs) < 5 THEN "Insufficient data for trend analysis"
    ELSE IF CvLt(vs, [n |-> 1, d |-> 10]) THEN "Highly Stable"
    ELSE IF CvLt(vs, [n |-> 1, d |-> 5]) THEN "Stable"
    ELSE "Variable"

\* the progress with the stable band closed: abs(difference) <= 0.5
AssessOptimizationProgressClosed(vs) ==
    IF Len(vs) < 3 THEN "Insufficient data"
    ELSE LET recent_avg == Mean(SubSeq(vs, Len(vs) - 2, Len(vs)))
             early_avg  == Mean(SubSeq(vs, 1, 3))
         IN  IF RLe(RAbs(RSub(recent_avg, early_avg)), [n |-> 1, d |-> 2])
             THEN "Stable therapy (no significant changes)"
             ELSE IF RLt(early_avg, recent_avg) THEN "Pressure increased over time"
             ELSE "Pressure decreased over time"

\* _assess_optimization_progress
AssessOptimizationProgress(vs) ==
    IF Len(vs) < 3 THEN "Insufficient data"
    ELSE LET recent_avg == Mean(SubSeq(vs, Len(vs) - 2, Len(vs)))
             early_avg  == Mean(SubSeq(vs, 1, 3))
         IN  IF RLt(RAbs(RSub(recent_avg, early_avg)), [n |-> 1, d |-> 2])
             THEN "Stable therapy (no significant changes)"
             ELSE IF RLt(early_avg, recent_avg) THEN "Pressure increased over time"
             ELSE "Pressure decreased over time"

\* no decoder has run
DecoderIdle(a) == Extracted(a, <<>>)

TrendInit ==
    /\ CallIdle
    /\ DecoderIdle("sleep")
    /\ mobile_reference = DefaultReference
    /\ values \in MeanTuples
    /\ analysis = Pending
    /\ in_range = Pending
    /\ correlation = Pending
    /\ trend = Pending
    /\ mean_pressure = FromInt(0)
    /\ pressure_level = Pending

\* the four trend functions called on values
AssessTrend ==
    /\ trend = Pending
    /\ trend' = [pressure_trend |-> CalculateTrend(values),
                 trend_direction |-> AssessTrendDirection(values),
                 stability_assessment |-> AssessLongTermStability(values),
                 optimization_progress |-> AssessOptimizationProgress(values)]
    /\ UNCHANGED <<decodeVars, analysis, in_range, correlation, values,
                   mean_pressure, pressure_level>>
    /\ UNCHANGED callVars

TrendNext == AssessTrend

SpecTrend == TrendInit /\ [][TrendNext]_vars

--------------------------------------------------------------------------
(* The pressure-level classifier of bmc_sleep_analyzer.py, applied to a   *)
(* mean on its own.                                                       *)

\* the means tried around each threshold: this many thousandths either side
MaxOffset == 10

\* the thresholds of _assess_pressure_level, in thousandths
LevelThresholds == {4000, 6000, 12000, 15000}

Means ==
    {Rat(t + o, 1000) : t \in LevelThresholds, o \in (-MaxOffset)..MaxOffset}
    \cup {FromInt(0), FromInt(9), FromInt(20), FromInt(25)}

ClassifyInit ==
    /\ CallIdle
    /\ DecoderIdle("sleep")
    /\ mobile_reference = DefaultReference
    /\ mean_pressure \in Means
    /\ analysis = Pending
    /\ in_range = Pending
    /\ correlation = Pending
    /\ values = <<>>
    /\ trend = Pending
    /\ pressure_level = Pending

\* a call of _assess_pressure_level
ClassifyPressureLevel ==
    /\ pressure_level = Pending
    /\ pressure_level' = [label |-> AssessPressureLevel(mean_pressure)]
    /\ UNCHANGED <<decodeVars, analysis, in_range, correlation, values, trend,
                   mean_pressure>>
    /\ UNCHANGED callVars

ClassifyNext == ClassifyPressureLevel

SpecClassify == ClassifyInit /\ [][ClassifyNext]_vars

--------------------------------------------------------------------------
(* The correlation with the reference of bmc_cpap_analyzer.py.            *)

\* reference records: the one __init__ sets and two more with other positive
\* pressures
References ==
    {DefaultReference,
     [avg_pressure |-> [n |-> 4, d |-> 1], p95_pressure |-> [n |-> 6, d |-> 1]],
     [avg_pressure |-> [n |-> 12, d |-> 1], p95_pressure |-> [n |-> 20, d |-> 1]]}

\* 1 - diff / reference without the max(0, ...)
MetricCorrelationUnclamped(parsed, reference) ==
    RSub(FromInt(1), RDiv(RAbs(RSub(parsed, reference)), reference))

\* max(0, 1 - (abs(parsed - reference) / reference))
MetricCorrelation(parsed, reference) ==
    RMax(FromInt(0),
         RSub(FromInt(1), RDiv(RAbs(RSub(parsed, reference)), reference)))

\* a mobile_reference without the pressure entries
NoReference == [entries |-> "none"]

\* self.mobile_reference['avg_pressure'] raises when the entry is missing
KeyError == [error |-> "KeyError"]

\* calculate_correlation
Correlation(ps) ==
    IF ps = <<>> THEN [overall_correlation |-> FromInt(0), metrics |-> <<>>]
    ELSE IF mobile_reference = NoReference THEN KeyError
    ELSE LET parsed_mean == Mean(ps)
             parsed_p95  == Percentile(ps, 95)
             pressure_correlation ==
                 MetricCorrelation(parsed_mean, mobile_reference.avg_pressure)
             p95_correlation ==
                 MetricCorrelation(parsed_p95, mobile_reference.p95_pressure)
         IN  [overall_correlation |->
                  RDiv(RAdd(pressure_correlation, p95_correlation), FromInt(2)),
              metrics |->
                  [parsed_mean |-> parsed_mean,
                   parsed_p95 |-> parsed_p95,
                   pressure_diff |->
                       RAbs(RSub(parsed_mean, mobile_reference.avg_pressure)),
                   p95_diff |->
                       RAbs(RSub(parsed_p95, mobile_reference.p95_pressure)),
                   data_points |-> Len(ps)]]

CorrInit ==
    /\ CallIdle
    /\ \E ps \in SampleLists : Extracted("cpap", ps)
    /\ mobile_reference \in References
    /\ ResultsIdle

\* correlation, metrics = self.calculate_correlation(pressures)
CalculateCorrelation ==
    /\ pc = "done"
    /\ analyzer = "cpap"
    /\ correlation = Pending
    /\ correlation' = Correlation(all_pressures)
    /\ UNCHANGED <<decodeVars, analysis, in_range, values, trend, mean_pressure,
                   pressure_level>>
    /\ UNCHANGED callVars

CorrNext == CalculateCorrelation

SpecCorr == CorrInit /\ [][CorrNext]_vars

\* the same call on an analyzer whose reference may lack its entries
ReferenceInit ==
    /\ CallIdle
    /\ \E ps \in SampleLists : Extracted("cpap", ps)
    /\ mobile_reference \in References \cup {NoReference}
    /\ ResultsIdle

SpecReference == ReferenceInit /\ [][CorrNext]_vars

--------------------------------------------------------------------------
(* The block decoder of detailed_event_analyzer.py, called on one block.  *)

\* the type codes of the blocks tried: in the table (1, 2, 10, 170, 255) and
\* outside it (0, 11, 153)
BlockTypes == {0, 1, 2, 10, 11, 153, 170, 255}

\* the durations of the blocks tried: both sides of 0, 5, 15 and 30, a
\* duration with a high byte only, and the largest
BlockDurations == {0, 1, 5, 6, 15, 16, 30, 31, 35, 256, 65535}

\* the calls the two passes make: a 32-byte block behind the marker, a
\* 16-byte block behind a pattern
BlockCalls ==
    {[fn |-> "_parse_event_block", block |-> MarkerBlock(t, d), position |-> 0,
      pattern_type |-> "aaaa"] : t \in BlockTypes, d \in BlockDurations}
    \cup
    {[fn |-> "_parse_event_block", block |-> PatternBlock(patterns[k], t, d),
      position |-> 4, pattern_type |-> HexLower(patterns[k])] :
        k \in 1..Len(patterns), t \in BlockTypes, d \in BlockDurations}

BlockInit ==
    /\ DecoderIdle("events")
    /\ mobile_reference = DefaultReference
    /\ ResultsIdle
    /\ call \in BlockCalls
    /\ result = Pending

\* event = self._parse_event_block(event_block, position, filename, ...)
ParseBlock ==
    /\ call.fn = "_parse_event_block"
    /\ result = Pending
    /\ result' = [returned |->
                      ParseEventBlock(call.block, call.position, call.pattern_type)]
    /\ UNCHANGED <<decodeVars, resultVars, call>>

BlockNext == ParseBlock

SpecBlock == BlockInit /\ [][BlockNext]_vars

--------------------------------------------------------------------------
(* _extract_pressure_data and the analyses behind it, for files processed *)
(* in any order.                                                          *)

\* most files handed to _extract_pressure_data
MaxFiles == 5

\* the number in the name of the j-th file, names taken in ascending order
FileNumber(j) == IF j <= 2 THEN j - 1 ELSE 5 * j - 5

\* the readings the files decode to, by position of the file in ascending
\* order: means that rise from file to file; equal means with a file that
\* gives no reading and a last file that differs; two means in turn with
\* one and three readings a file
ReadingPlans(n) ==
    {[j \in 1..n |-> <<FromInt(2 * j + 2), FromInt(2 * j + 6)>>],
     [j \in 1..n |-> IF j = 2 THEN <<>>
                     ELSE IF j = n THEN <<FromInt(12), FromInt(6)>>
                     ELSE <<FromInt(8)>>],
     [j \in 1..n |-> IF j % 2 = 1 THEN <<FromInt(8)>>
                     ELSE <<FromInt(6), FromInt(10), FromInt(14)>>]}

\* every order of the first n file numbers
Orders(n) ==
    {f \in [1..n -> {FileNumber(j) : j \in 1..n}] :
        \A a, b \in 1..n : a # b => f[a] # f[b]}

\* _extract_pressure_data(files): the files in the order they are processed,
\* and what each file decodes to
OrderCalls ==
    UNION {{[fn |-> "_extract_pressure_data", files |-> order,
              readings |-> [f \in {FileNumber(j) : j \in 1..n} |->
                               plan[CHOOSE j \in 1..n : FileNumber(j) = f]]] :
               order \in Orders(n), plan \in ReadingPlans(n)} :
           n \in {1, 3, MaxFiles}}

\* the loop over files: a file with readings appends its entry to the per-file
\* table, which keeps the order of insertion, and extends the aggregate list
RECURSIVE ExtractLoop(_, _, _, _)
ExtractLoop(files, readings, all, per) ==
    IF files = <<>>
    THEN [all_pressures |-> all, per_file |-> per, total_readings |-> Len(all)]
    ELSE LET filename == Head(files)
             ps       == readings[filename]
         IN  IF ps # <<>>
             THEN ExtractLoop(Tail(files), readings, all \o ps,
                      Append(per, [filename |-> filename,
                                   data |-> FileEntry("sleep", ps)]))
             ELSE ExtractLoop(Tail(files), readings, all, per)

\* _extract_pressure_data
ExtractPressureData(files, readings) == ExtractLoop(files, readings, <<>>, <<>>)

\* pair a comes before pair b in sorted(zip(file_numbers, file_means))
PairBefore(a, b) ==
    \/ a.file_num < b.file_num
    \/ a.file_num = b.file_num /\ RLe(a.mean, b.mean)

\* sorted(...) of the pairs
RECURSIVE SortPairs(_, _)
SortPairs(sorted, rest) ==
    IF rest = <<>> THEN sorted
    ELSE LET e == Head(rest)
         IN  SortPairs(SelectSeq(sorted, LAMBDA x : PairBefore(x, e)) \o <<e>>
                       \o SelectSeq(sorted, LAMBDA x : ~PairBefore(x, e)),
                       Tail(rest))

\* the file means in the order of the per-file table
FileMeansUnsorted(per) == [j \in 1..Len(per) |-> per[j].data.mean]

\* file_means after the zip, the sort and the unzip
FileMeans(per) ==
    LET pairs  == [j \in 1..Len(per) |->
                      [file_num |-> per[j].filename, mean |-> per[j].data.mean]]
        sorted == SortPairs(<<>>, pairs)
    IN  [j \in 1..Len(sorted) |-> sorted[j].mean]

\* the trends of the means as the per-file table holds them
AnalyzeTemporalTrendsUnsorted(per) ==
    IF per = <<>> THEN [status |-> "No pressure trend data available"]
    ELSE LET file_means == FileMeansUnsorted(per)
         IN  [pressure_trend |-> CalculateTrend(file_means),
              trend_direction |-> AssessTrendDirection(file_means),
              stability_assessment |-> AssessLongTermStability(file_means),
              optimization_progress |-> AssessOptimizationProgress(file_means)]

\* _analyze_temporal_trends
AnalyzeTemporalTrends(per) ==
    IF per = <<>> THEN [status |-> "No pressure trend data available"]
    ELSE LET file_means == FileMeans(per)
         IN  [pressure_trend |-> CalculateTrend(file_means),
              trend_direction |-> AssessTrendDirection(file_means),
              stability_assessment |-> AssessLongTermStability(file_means),
              optimization_progress |-> AssessOptimizationProgress(file_means)]

OrderInit ==
    /\ DecoderIdle("sleep")
    /\ mobile_reference = DefaultReference
    /\ ResultsIdle
    /\ call \in OrderCalls
    /\ result = Pending

\* pressure_data = self._extract_pressure_data(files)
ExtractInOrder ==
    /\ call.fn = "_extract_pressure_data"
    /\ result = Pending
    /\ result' = [returned |-> ExtractPressureData(call.files, call.readings)]
    /\ UNCHANGED <<decodeVars, resultVars, call>>

\* analysis_results['pressure_analysis'] = self._analyze_pressure_therapy(pressure_data)
TherapyOfExtracted ==
    /\ call.fn = "_extract_pressure_data"
    /\ result # Pending
    /\ analysis = Pending
    /\ analysis' = PressureTherapy(result.returned.all_pressures)
    /\ UNCHANGED <<decodeVars, in_range, correlation, values, trend, mean_pressure,
                   pressure_level, callVars>>

\* trend_data = self._analyze_temporal_trends(files, pressure_data)
TrendsOfExtracted ==
    /\ call.fn = "_extract_pressure_data"
    /\ result # Pending
    /\ trend = Pending
    /\ trend' = AnalyzeTemporalTrends(result.returned.per_file)
    /\ values' = FileMeans(result.returned.per_file)
    /\ UNCHANGED <<decodeVars, analysis, in_range, correlation, mean_pressure,
                   pressure_level, callVars>>

OrderNext == ExtractInOrder \/ TherapyOfExtracted \/ TrendsOfExtracted

SpecOrder == OrderInit /\ [][OrderNext]_vars

--------------------------------------------------------------------------
(* _generate_clinical_recommendations on its own.                         *)

\* d.get(key, default) of a dictionary
Get(d, key, default) == IF key \in DOMAIN d THEN d[key] ELSE default

\* analysis_results['pressure_analysis'] as _analyze_pressure_therapy leaves
\* it: no pressure data, or a therapy assessment with one of the four levels
PressureAnalyses ==
    {[status |-> "No pressure data available"]}
    \cup {[therapy_assessment |-> [pressure_level |-> level]] :
              level \in {"optimal", "low_normal", "high_normal", "requires_adjustment"}}

\* analysis_results['usage_analysis']: the percentage of k nights out of 10,
\* of 2 out of 3, and of 69 and 71 out of 100
UsageAnalyses ==
    {[usage_percentage |-> Percent(k, 10)] : k \in 0..10}
    \cup {[usage_percentage |-> Percent(2, 3)], [usage_percentage |-> Percent(69, 100)],
          [usage_percentage |-> Percent(71, 100)]}

\* the dictionaries handed over: either entry may be missing
RecommendationCalls ==
    {[fn |-> "_generate_clinical_recommendations", analysis_results |-> r] :
        r \in {[pressure_analysis |-> pa, usage_analysis |-> ua] :
                   pa \in PressureAnalyses, ua \in UsageAnalyses}
              \cup {[pressure_analysis |-> pa] : pa \in PressureAnalyses}
              \cup {[usage_analysis |-> ua] : ua \in UsageAnalyses}
              \cup {[timeframe |-> "Complete dataset"]}}

\* the adherence advisories given up to 70 percent
GenerateClinicalRecommendationsUpTo(analysis_results) ==
    LET pressure_data == Get(analysis_results, "pressure_analysis", <<>>)
        usage_data    == Get(analysis_results, "usage_analysis", <<>>)
        assessment    == Get(pressure_data, "therapy_assessment", <<>>)
        usage_pct     == Get(usage_data, "usage_percentage", FromInt(0))
    IN  (IF /\ "pressure_level" \in DOMAIN assessment
            /\ assessment.pressure_level = "requires_adjustment"
         THEN <<"Consider pressure titration adjustment">> ELSE <<>>)
        \o (IF RLe(usage_pct, FromInt(70))
            THEN <<"Implement adherence improvement interventions",
                   "Patient education on CPAP benefits and proper usage">>
            ELSE <<>>)
        \o <<"Continue regular monitoring of therapy effectiveness",
              "Schedule follow-up assessment in 3 months">>

\* _generate_clinical_recommendations
GenerateClinicalRecommendations(analysis_results) ==
    LET pressure_data == Get(analysis_results, "pressure_analysis", <<>>)
        usage_data    == Get(analysis_results, "usage_analysis", <<>>)
        assessment    == Get(pressure_data, "therapy_assessment", <<>>)
        usage_pct     == Get(usage_data, "usage_percentage", FromInt(0))
    IN  (IF /\ "pressure_level" \in DOMAIN assessment
            /\ assessment.pressure_level = "requires_adjustment"
         THEN <<"Consider pressure titration adjustment">> ELSE <<>>)
        \o (IF RLt(usage_pct, FromInt(70))
            THEN <<"Implement adherence improvement interventions",
                   "Patient education on CPAP benefits and proper usage">>
            ELSE <<>>)
        \o <<"Continue regular monitoring of therapy effectiveness",
              "Schedule follow-up assessment in 3 months">>

RecommendInit ==
    /\ DecoderIdle("sleep")
    /\ mobile_reference = DefaultReference
    /\ ResultsIdle
    /\ call \in RecommendationCalls
    /\ result = Pending

\* assessment['clinical_recommendations'] =
\*     self._generate_clinical_recommendations(analysis_results)
GenerateRecommendations ==
    /\ call.fn = "_generate_clinical_recommendations"
    /\ result = Pending
    /\ result' = [returned |-> GenerateClinicalRecommendations(call.analysis_results)]
    /\ UNCHANGED <<decodeVars, resultVars, call>>

RecommendNext == GenerateRecommendations

SpecRecommend == RecommendInit /\ [][RecommendNext]_vars

--------------------------------------------------------------------------
(* _assess_therapeutic_window and _analyze_pressure_peaks on their own.   *)

\* the two functions, each on every sample list
WindowCalls ==
    {[fn |-> f, pressures |-> ps] :
        f \in {"_assess_therapeutic_window", "_analyze_pressure_peaks"},
        ps \in SampleLists}

\* what a call ends in: the value returned, or the exception raised
Outcome(v) ==
    IF "error" \in DOMAIN v THEN [raised |-> v.error] ELSE [returned |-> v]

WindowInit ==
    /\ DecoderIdle("sleep")
    /\ mobile_reference = DefaultReference
    /\ ResultsIdle
    /\ call \in WindowCalls
    /\ result = Pending

\* self._assess_therapeutic_window(pressures)
TherapeuticWindowCall ==
    /\ call.fn = "_assess_therapeutic_window"
    /\ result = Pending
    /\ result' = Outcome(AssessTherapeuticWindow(call.pressures))
    /\ UNCHANGED <<decodeVars, resultVars, call>>

\* self._analyze_pressure_peaks(pressures); on an empty list np.percentile
\* raises IndexError or returns nan, and then the division raises
PressurePeaksCall ==
    /\ call.fn = "_analyze_pressure_peaks"
    /\ result = Pending
    /\ \/ result' = Outcome(AnalyzePressurePeaks(call.pressures))
       \/ call.pressures = <<>> /\ result' = [raised |-> "IndexError"]
    /\ UNCHANGED <<decodeVars, resultVars, call>>

WindowNext == TherapeuticWindowCall \/ PressurePeaksCall

SpecWindow == WindowInit /\ [][WindowNext]_vars

--------------------------------------------------------------------------
(* _bytes_to_time_estimate on its own.                                   *)

\* the sizes of the buffers decoded: a few bytes, the sizes of the event
\* buffers, one and two nominal hours, the nominal 16 MB and twice that
TimeSizes == {2, 4, 130, 1282, 65536, 2097152, 4194304, 16777216, 33554432}

\* the positions asked for: the start, the strides, both sides of a minute
\* and of an hour, the middle and the end of the nominal size and beyond
TimePositions ==
    {0, 2, 4, 128, 130, 1280, 1282, 34952, 34953, 65536, 2097151, 2097152,
     4194304, 4194305, 8388608, 16777215, 16777216, 33554432}

\* self._bytes_to_time_estimate(i) for a position i of a buffer of the given
\* size; the size is the caller's len(data) and is not handed over
TimeCalls ==
    UNION {{[fn |-> "_bytes_to_time_estimate", byte_position |-> p,
              buffer_size |-> sz] : p \in {q \in TimePositions : q <= sz}} :
           sz \in TimeSizes}

TimeInit ==
    /\ DecoderIdle("events")
    /\ mobile_reference = DefaultReference
    /\ ResultsIdle
    /\ call \in TimeCalls
    /\ result = Pending

EstimateTime ==
    /\ call.fn = "_bytes_to_time_estimate"
    /\ result = Pending
    /\ result' = [returned |-> BytesToTimeEstimate(call.byte_position)]
    /\ UNCHANGED <<decodeVars, resultVars, call>>

TimeNext == EstimateTime

SpecTime == TimeInit /\ [][TimeNext]_vars

--------------------------------------------------------------------------
(* The loop over the files of _extract_pressure_data and                  *)
(* extract_pressure_data, with files that cannot be read.                 *)

\* a file that open() or read() fails on
Unreadable == [readable |-> FALSE, bytes |-> <<>>]

\* a file that read() gives the bytes of
Readable(bytes) == [readable |-> TRUE, bytes |-> bytes]

\* what a file may be: unreadable, empty, one window outside every band and
\* one inside the wide band only, two windows inside both bands
FileContents ==
    {Unreadable, Readable(<<>>), Readable(Bytes(<<0, 300>>)),
     Readable(Bytes(<<104, 130>>))}

\* the calls: either analyzer on up to MaxFiles files, named by their place
AccumulateCalls ==
    {[fn |-> "extract_pressure_data", files |-> fs] :
        fs \in UNION {[1..n -> FileContents] : n \in 0..MaxFiles}}

\* the window loop over a whole buffer, from offset on
RECURSIVE ParsePressureData(_, _, _)
ParsePressureData(a, bytes, offset) ==
    IF ~InRange(offset, bytes) THEN <<>>
    ELSE WindowReadings(a, bytes, offset)
         \o ParsePressureData(a, bytes, offset + Stride)

AccumulateInit ==
    /\ analyzer \in {"sleep", "cpap"}
    /\ call \in AccumulateCalls
    /\ result = Pending
    /\ disk = <<>>
    /\ fileIdx = 1
    /\ data = <<>>
    /\ i = 0
    /\ pressures = <<>>
    /\ examined = <<>>
    /\ all_pressures = <<>>
    /\ per_file = <<>>
    /\ runs = <<>>
    /\ pc = "next"
    /\ mobile_reference = DefaultReference
    /\ ResultsIdle

\* the aggregate list is set to the readings of the file
ReadAndStoreFresh ==
    /\ pc = "next"
    /\ fileIdx <= Len(call.files)
    /\ call.files[fileIdx].readable
    /\ LET got == ParsePressureData(analyzer, call.files[fileIdx].bytes, 0)
       IN  /\ data' = call.files[fileIdx].bytes
           /\ pressures' = got
           /\ IF got # <<>>
              THEN /\ per_file' = per_file @@ (fileIdx :> FileEntry(analyzer, got))
                   /\ all_pressures' = got
              ELSE UNCHANGED <<per_file, all_pressures>>
           /\ runs' = Append(runs, got)
    /\ fileIdx' = fileIdx + 1
    /\ UNCHANGED <<analyzer, disk, i, examined, pc, mobile_reference, resultVars, callVars>>

\* one pass of the try block that runs to its end: the file is read and
\* decoded; with readings it gets its entry and extends the aggregate list
ReadAndStore ==
    /\ pc = "next"
    /\ fileIdx <= Len(call.files)
    /\ call.files[fileIdx].readable
    /\ LET got == ParsePressureData(analyzer, call.files[fileIdx].bytes, 0)
       IN  /\ data' = call.files[fileIdx].bytes
           /\ pressures' = got
           /\ IF got # <<>>
              THEN /\ per_file' = per_file @@ (fileIdx :> FileEntry(analyzer, got))
                   /\ all_pressures' = all_pressures \o got
              ELSE UNCHANGED <<per_file, all_pressures>>
           /\ runs' = Append(runs, got)
    /\ fileIdx' = fileIdx + 1
    /\ UNCHANGED <<analyzer, disk, i, examined, pc, mobile_reference, resultVars, callVars>>

\* open() or read() raises: the except clause reports the file and the loop
\* goes on with the next one
ReadFails ==
    /\ pc = "next"
    /\ fileIdx <= Len(call.files)
    /\ ~call.files[fileIdx].readable
    /\ runs' = Append(runs, <<>>)
    /\ fileIdx' = fileIdx + 1
    /\ UNCHANGED <<analyzer, disk, data, i, pressures, examined, all_pressures, per_file,
                   pc, mobile_reference, resultVars, callVars>>

\* the return after the last file
ReturnAccumulated ==
    /\ pc = "next"
    /\ fileIdx > Len(call.files)
    /\ result' = [returned |-> [all_pressures |-> all_pressures, per_file |-> per_file,
                                total_readings |-> Len(all_pressures)]]
    /\ pc' = "done"
    /\ UNCHANGED <<analyzer, disk, fileIdx, data, i, pressures, examined, all_pressures,
                   per_file, runs, mobile_reference, resultVars, call>>

AccumulateNext == ReadAndStore \/ ReadFails \/ ReturnAccumulated

SpecAccumulate == AccumulateInit /\ [][AccumulateNext]_vars

--------------------------------------------------------------------------
(* run_analysis of bmc_cpap_analyzer.py: the decoding in the band around  *)
(* the reference, the correlation with that reference, the two status     *)
(* lines of the report.                                                   *)

\* window values at the edges of the band 6.0 .. 10.0 and inside it: 74 fits
\* no divisor, 75 / 12.5 = 6.0, 100 / 12.5 = 8.0, 119 / 12.5 = 9.52,
\* 125 / 12.5 = 10.0, 140 / 14 = 10.0, 141 fits no divisor
ValidationValues == {74, 75, 100, 119, 125, 140, 141}

ValidationBuffers ==
    {Bytes(ws) : ws \in UNION {[1..n -> ValidationValues] : n \in 0..MaxSamples}}

\* 'EXCELLENT' if correlation >= 0.7 else 'GOOD' if correlation >= 0.4 else
\* 'MODERATE'
CorrelationQuality(c) ==
    IF RLe([n |-> 7, d |-> 10], c) THEN "EXCELLENT"
    ELSE IF RLe([n |-> 2, d |-> 5], c) THEN "GOOD"
    ELSE "MODERATE"

\* 'EXCELLENT' if pressure_diff <= 1.0 else 'GOOD' if pressure_diff <= 2.0
\* else 'NEEDS REVIEW'
PressureMatch(diff) ==
    IF RLe(diff, FromInt(1)) THEN "EXCELLENT"
    ELSE IF RLe(diff, FromInt(2)) THEN "GOOD"
    ELSE "NEEDS REVIEW"

ValidationInit ==
    /\ analyzer = "cpap"
    /\ mobile_reference = DefaultReference
    /\ \E bytes \in ValidationBuffers : disk = <<bytes>>
    /\ fileIdx = 1
    /\ data = <<>>
    /\ i = 0
    /\ pressures = <<>>
    /\ examined = <<>>
    /\ all_pressures = <<>>
    /\ per_file = <<>>
    /\ runs = <<>>
    /\ pc = "next"
    /\ CallIdle
    /\ ResultsIdle

\* pressures, file_stats = self.extract_pressure_data(files)
ExtractNarrowed ==
    /\ pc = "next"
    /\ fileIdx = 1
    /\ LET got == ParsePressureData(analyzer, disk[1], 0)
       IN  /\ data' = disk[1]
           /\ pressures' = got
           /\ all_pressures' = got
           /\ per_file' = IF got # <<>> THEN (1 :> FileEntry(analyzer, got)) ELSE per_file
           /\ runs' = <<got>>
    /\ fileIdx' = 2
    /\ pc' = "done"
    /\ UNCHANGED <<analyzer, disk, i, examined, mobile_reference, resultVars, callVars>>

\* if not pressures: return
NoPressureData ==
    /\ pc = "done"
    /\ all_pressures = <<>>
    /\ result = Pending
    /\ result' = [returned |-> "None"]
    /\ UNCHANGED <<decodeVars, resultVars, call>>

\* correlation, metrics = self.calculate_correlation(pressures)
CorrelateExtracted ==
    /\ pc = "done"
    /\ all_pressures # <<>>
    /\ correlation = Pending
    /\ correlation' = Correlation(all_pressures)
    /\ UNCHANGED <<decodeVars, analysis, in_range, values, trend, mean_pressure,
                   pressure_level, callVars>>

\* the VALIDATION STATUS lines of generate_report
ReportValidationStatus ==
    /\ correlation # Pending
    /\ analysis = Pending
    /\ analysis' =
           [correlation_quality |-> CorrelationQuality(correlation.overall_correlation),
            pressure_match |-> PressureMatch(correlation.metrics.pressure_diff)]
    /\ UNCHANGED <<decodeVars, in_range, correlation, values, trend, mean_pressure,
                   pressure_level, callVars>>

ValidationNext ==
    ExtractNarrowed \/ NoPressureData \/ CorrelateExtracted \/ ReportValidationStatus

SpecValidation == ValidationInit /\ [][ValidationNext]_vars

--------------------------------------------------------------------------
(* _extract_events_from_file on files of the nominal size: the buffer is  *)
(* given by its length and by the 16-bit values at the offsets the third  *)
(* pass samples, every other byte being 0, so that the marker pass and    *)
(* the pattern pass find nothing.                                         *)

\* where the first sample stands: the start of the file (22:00), 23:30, and
\* 00:00
SessionStarts == {0, 3145728, 4194304}

\* the distance from one sample with a value to the next: one stride, 3.75
\* minutes, half an hour
SessionSpacings == {InferenceStride, 131072, 1048576}

\* how many samples hold a value: one too few for the third pass, just
\* enough, and two more
SessionCounts ==
    {MinInferenceReadings - 1, MinInferenceReadings, MinInferenceReadings + 2}

\* the values, taken in turn: no rise; a rise of 56/13 at every other sample;
\* a rise of 96/13 and a value outside the band; falling values
SessionProfiles ==
    {<<104>>, <<104, 160>>, <<104, 104, 200, 50>>, <<200, 160, 104>>}

\* the samples of a file: offset and value
SessionSamples(start, spacing, n, profile) ==
    [j \in 1..n |-> [offset |-> start + (j - 1) * spacing,
                     val |-> profile[((j - 1) % Len(profile)) + 1]]]

SessionCalls ==
    {[fn |-> "_extract_events_from_file",
      samples |-> SessionSamples(start, spacing, n, profile),
      size |-> start + n * spacing] :
        start \in SessionStarts, spacing \in SessionSpacings,
        n \in SessionCounts, profile \in SessionProfiles}

\* the first loop of _infer_events_from_pressure over the sampled offsets
\* that hold a value; the offsets in between hold 0 and give no reading
RECURSIVE SampledReadings(_)
SampledReadings(samples) ==
    IF samples = <<>> THEN <<>>
    ELSE LET pressure == RDiv(FromInt(Head(samples).val), FromInt(13))
         IN  (IF RLe(FromInt(4), pressure) /\ RLe(pressure, FromInt(25))
              THEN <<[pressure |-> pressure, timestamp |-> Head(samples).offset]>>
              ELSE <<>>)
             \o SampledReadings(Tail(samples))

\* _infer_events_from_pressure from the readings on
InferEventsFromReadings(readings) ==
    IF Len(readings) < MinInferenceReadings THEN <<>>
    ELSE IncreaseEvents(readings, 0)

SessionInit ==
    /\ DecoderIdle("events")
    /\ mobile_reference = DefaultReference
    /\ ResultsIdle
    /\ call \in SessionCalls
    /\ result = Pending

\* events = self._extract_events_from_file(filename): the first two passes
\* give nothing, the third its inferred events, then the sort
ExtractSessionEvents ==
    /\ call.fn = "_extract_events_from_file"
    /\ result = Pending
    /\ result' = [returned |->
                      SortedByTimestamp(InferEventsFromReadings(
                          SampledReadings(call.samples)))]
    /\ UNCHANGED <<decodeVars, resultVars, call>>

SessionNext == ExtractSessionEvents

SpecSession == SessionInit /\ [][SessionNext]_vars

--------------------------------------------------------------------------
(* Properties of the sample decoders.                                     *)

\* the 16-bit value of an examined window
Raw(e) == e.window[1] + 256 * e.window[2]

\* the divisors of the running analyzer that put raw / divisor in its band
Fitting(raw) ==
    {k \in 1..Len(Divisors(analyzer)) :
        LET q == RDiv(FromInt(raw), Divisors(analyzer)[k])
        IN  RLe(BandLo(analyzer), q) /\ RLe(q, BandHi(analyzer))}

\* the pressure a reading carries
PressureOf(r) == IF analyzer = "timeline" THEN r.pressure ELSE r

Examined == {examined[k] : k \in 1..Len(examined)}

\* C1: a window whose value some divisor puts in the band emits exactly one
\* sample, raw divided by the first such divisor of the list, and never the
\* quotient by a later divisor that fits as well.
FirstMatchPolicy ==
    \A e \in Examined :
        Fitting(Raw(e)) # {} =>
            LET first == CHOOSE k \in Fitting(Raw(e)) :
                             \A j \in Fitting(Raw(e)) : k <= j
            IN  /\ Len(e.emitted) = 1
                /\ PressureOf(e.emitted[1])
                       = RDiv(FromInt(Raw(e)), Divisors(analyzer)[first])
                /\ \A j \in Fitting(Raw(e)) \ {first} :
                       PressureOf(e.emitted[1])
                           # RDiv(FromInt(Raw(e)), Divisors(analyzer)[j])

\* raw value 104 in the band [6, 10]: 12.5 and 13.0 both fit, 8.32 is emitted
FirstMatchWitness ==
    /\ analyzer = "cpap"
    /\ \E e \in Examined :
          /\ Raw(e) = 104
          /\ {1, 2} \subseteq Fitting(104)
          /\ e.emitted = <<[n |-> 208, d |-> 25]>>

\* C2: a window yields a sample if and only if some divisor puts its value in
\* the band; under the default band [4, 20] with the five divisors that is
\* exactly the values 50..300, so a buffer of zero bytes yields nothing.
AcceptanceCondition ==
    /\ \A e \in Examined :
          /\ (e.emitted # <<>>) <=> (Fitting(Raw(e)) # {})
          /\ analyzer = "sleep" =>
                ((e.emitted # <<>>) <=> (Raw(e) \in 50..300))
    /\ (pc = "store" /\ \A k \in 1..Len(data) : data[k] = 0) => pressures = <<>>

\* 300 is accepted (300 / 15 = 20) and 301 is not
AcceptanceWitness ==
    /\ analyzer = "sleep"
    /\ pc = "store"
    /\ \E e \in Examined : Raw(e) = 300 /\ e.emitted = <<[n |-> 20, d |-> 1]>>
    /\ \E e \in Examined : Raw(e) = 301 /\ e.emitted = <<>>

\* C3: the scan unpacks only whole windows at even offsets, in ascending
\* order, at most floor((N-1)/2)+1 of them; the unpaired last byte of an odd
\* buffer is never part of a window, and N = 0 or 1 examines nothing.
StrideCorrectness ==
    /\ \A k \in 1..Len(examined) :
          /\ examined[k].offset = Stride * (k - 1)
          /\ examined[k].offset % 2 = 0
          /\ examined[k].offset + 1 <= Len(data) - 1
          /\ Len(examined[k].window) = 2
    /\ Len(examined) <= (Len(data) - 1) \div 2 + 1
    /\ Len(data) <= 1 => examined = <<>>

\* a buffer of 5 bytes scanned to the end: two windows, the fifth byte unread
StrideWitness ==
    /\ pc = "store"
    /\ Len(data) = 5
    /\ Len(examined) = 2
    /\ examined[2].offset = 2

--------------------------------------------------------------------------
(* Properties of the summary statistics.                                  *)

\* C5: the statistics of a non-empty sample set are ordered
\* min <= p5 <= median <= p95 <= max.
PercentileOrdering ==
    (analysis # Pending /\ all_pressures # <<>>) =>
        LET st == analysis.statistics
        IN  /\ RLe(st.min, st.p5)
            /\ RLe(st.p5, st.median)
            /\ RLe(st.median, st.p95)
            /\ RLe(st.p95, st.max)

\* four readings, not in order, whose percentiles fall between readings:
\* 4.0 < p5 < median < p95 < 20.0
PercentileOrderingWitness ==
    /\ analysis # Pending
    /\ all_pressures = <<[n |-> 20, d |-> 1], [n |-> 4, d |-> 1],
                         [n |-> 12, d |-> 1], [n |-> 6, d |-> 1]>>
    /\ analysis.statistics.p5 = [n |-> 43, d |-> 10]
    /\ analysis.statistics.median = [n |-> 9, d |-> 1]
    /\ analysis.statistics.p95 = [n |-> 94, d |-> 5]

\* C6: on an empty sample set the analysis returns the no-data result, with
\* no statistics and no labels, and time-in-range returns 0; neither raises.
EmptyInputSafety ==
    all_pressures = <<>> =>
        /\ analysis # Pending =>
              analysis = [status |-> "No pressure data available"]
        /\ in_range # Pending => in_range.result = FromInt(0)

\* both calls made on the empty list
EmptyAnalysisWitness ==
    /\ all_pressures = <<>>
    /\ analysis = [status |-> "No pressure data available"]
    /\ in_range # Pending
    /\ in_range.result = FromInt(0)

--------------------------------------------------------------------------
(* Properties of the trend functions.                                     *)

TenthR == [n |-> 1, d |-> 10]

\* C7: with at least 3 means the direction is Stable iff |slope| < 0.1,
\* Increasing iff slope >= 0.1 and Decreasing iff slope <= -0.1, the slope
\* being the least-squares coefficient over x = 0, 1, ...; with fewer than 3,
\* the empty tuple included, slope and direction are both the
\* insufficient-data string; the ten means around 8.0 give Stable.
TrendDirectionRule ==
    trend # Pending =>
        LET slope     == trend.pressure_trend
            direction == trend.trend_direction
            x         == Arange(Len(values))
            xbar      == Mean(x)
            ybar      == Mean(values)
            dx        == [k \in 1..Len(values) |-> RSub(x[k], xbar)]
            dy        == [k \in 1..Len(values) |-> RSub(values[k], ybar)]
        IN  /\ Len(values) < 3 =>
                  /\ slope = InsufficientData
                  /\ direction = "Insufficient data"
            /\ Len(values) >= 3 =>
                  /\ slope # InsufficientData
                  /\ RMul(slope, SumProd(dx, dx)) = SumProd(dx, dy)
                  /\ direction = "Stable" <=> RLt(RAbs(slope), TenthR)
                  /\ direction = "Increasing" <=> RLe(TenthR, slope)
                  /\ direction = "Decreasing" <=> RLe(slope, RNeg(TenthR))
            /\ values = TenMeans => direction = "Stable"

\* a slope of exactly 0.1 is Increasing
TrendDirectionWitness ==
    /\ values = <<[n |-> 8, d |-> 1], [n |-> 81, d |-> 10], [n |-> 41, d |-> 5]>>
    /\ trend # Pending
    /\ trend.pressure_trend = TenthR
    /\ trend.trend_direction = "Increasing"

\* the variance of a tuple compared with (bound * mean)^2
CvBelow(vs, bound) ==
    RLt(Variance(vs), RMul(RMul(bound, bound), RMul(Mean(vs), Mean(vs))))

\* C8: with at least 5 means the stability is Highly Stable iff CV < 0.1,
\* Stable iff 0.1 <= CV < 0.2 and Variable otherwise, CV being the
\* population std over the mean; with fewer than 5 it is the
\* insufficient-data string, so that 3 or 4 means have a direction and no
\* stability.
TrendStabilityRule ==
    trend # Pending =>
        LET stability == trend.stability_assessment
        IN  /\ Len(values) < 5 =>
                  stability = "Insufficient data for trend analysis"
            /\ Len(values) >= 5 =>
                  /\ stability = "Highly Stable" <=> CvBelow(values, TenthR)
                  /\ stability = "Stable" <=>
                         (~CvBelow(values, TenthR)
                          /\ CvBelow(values, [n |-> 1, d |-> 5]))
                  /\ stability = "Variable" <=>
                         ~CvBelow(values, [n |-> 1, d |-> 5])
            /\ Len(values) \in {3, 4} =>
                  trend.trend_direction \in {"Stable", "Increasing", "Decreasing"}

\* five means with a coefficient of variation of exactly 0.1 are Stable
TrendStabilityWitness ==
    /\ values = <<[n |-> 38, d |-> 5], [n |-> 38, d |-> 5], [n |-> 38, d |-> 5],
                  [n |-> 38, d |-> 5], [n |-> 48, d |-> 5]>>
    /\ trend # Pending
    /\ Variance(values) = [n |-> 16, d |-> 25]
    /\ Mean(values) = FromInt(8)
    /\ trend.stability_assessment = "Stable"

--------------------------------------------------------------------------
(* Properties of the classifier and of the correlation.                   *)

\* C9: every mean gets exactly one pressure level: optimal iff
\* 6.0 <= mean <= 12.0, low_normal iff 4.0 <= mean < 6.0, high_normal iff
\* 12.0 < mean <= 15.0, requires_adjustment iff mean < 4.0 or mean > 15.0.
PressureLevelBoundaries ==
    pressure_level # Pending =>
        LET label == pressure_level.label
            m     == mean_pressure
        IN  /\ label \in {"optimal", "low_normal", "high_normal",
                          "requires_adjustment"}
            /\ label = "optimal" <=> (RLe(FromInt(6), m) /\ RLe(m, FromInt(12)))
            /\ label = "low_normal" <=> (RLe(FromInt(4), m) /\ RLt(m, FromInt(6)))
            /\ label = "high_normal" <=>
                   (RLt(FromInt(12), m) /\ RLe(m, FromInt(15)))
            /\ label = "requires_adjustment" <=>
                   (RLt(m, FromInt(4)) \/ RLt(FromInt(15), m))

\* a mean of exactly 6.0 is optimal
PressureLevelWitness ==
    /\ mean_pressure = FromInt(6)
    /\ pressure_level # Pending
    /\ pressure_level.label = "optimal"

ReferenceMissingHandled ==
    (correlation # Pending
     /\ (all_pressures = <<>> \/ mobile_reference = NoReference)) =>
        correlation = [overall_correlation |-> FromInt(0), metrics |-> <<>>]

--------------------------------------------------------------------------
(* Properties of the block decoder.                                       *)

\* the type code and the duration a block holds, read byte by byte
CodeOf(block) == block[5]

DurationOf(block) == block[6] + 256 * block[7]

\* C12: the severity of a decoded event follows the duration held little
\* endian in block bytes 5..6: Severe iff duration > 30, Moderate iff
\* 15 < duration <= 30, Mild iff 5 < duration <= 15, Minimal iff
\* duration <= 5; type 0x01 with duration 35 is a Severe Obstructive Apnea.
SeverityByDuration ==
    (result # Pending /\ result.returned # <<>>) =>
        LET e == result.returned[1]
            d == DurationOf(call.block)
        IN  /\ e.duration = d
            /\ e.severity = "Severe" <=> d > 30
            /\ e.severity = "Moderate" <=> (15 < d /\ d <= 30)
            /\ e.severity = "Mild" <=> (5 < d /\ d <= 15)
            /\ e.severity = "Minimal" <=> d <= 5
            /\ (CodeOf(call.block) = 1 /\ d = 35) =>
                  (e.type = "Obstructive Apnea" /\ e.severity = "Severe")

\* the block with type 0x01 and duration 35 has been decoded
SeverityWitness ==
    /\ result # Pending
    /\ result.returned # <<>>
    /\ CodeOf(call.block) = 1
    /\ DurationOf(call.block) = 35
    /\ result.returned[1].type = "Obstructive Apnea"
    /\ result.returned[1].severity = "Severe"

\* the codes of the event-type table
TableCodes == (1..10) \cup {170, 255}

\* the kind an unmapped code of BlockTypes gets
UnknownKind == (0 :> "Unknown_0x00") @@ (11 :> "Unknown_0x0B") @@ (153 :> "Unknown_0x99")

\* C13: a block gives an event iff its type code is in the event-type table
\* or its duration is above 0; an unmapped code with duration 0 gives none,
\* an unmapped code with a duration above 0 gives an event of kind
\* Unknown(code).
EmissionRule ==
    result # Pending =>
        LET code == CodeOf(call.block)
            d    == DurationOf(call.block)
        IN  /\ result.returned # <<>> <=> (code \in TableCodes \/ d > 0)
            /\ (code \notin TableCodes /\ d = 0) => result.returned = <<>>
            /\ (code \notin TableCodes /\ d > 0) =>
                  (Len(result.returned) = 1 /\ result.returned[1].type = UnknownKind[code])

\* an unmapped code with duration 1 gave an Unknown event
EmissionWitness ==
    /\ result # Pending
    /\ CodeOf(call.block) = 153
    /\ DurationOf(call.block) = 1
    /\ Len(result.returned) = 1
    /\ result.returned[1].type = "Unknown_0x99"

--------------------------------------------------------------------------
(* Properties of the event decoder.                                       *)

\* the events returned for the files decoded so far, each with its file
Returned ==
    IF analyzer = "events"
    THEN UNION {{<<k, j>> : j \in 1..Len(runs[k])} : k \in 1..Len(runs)}
    ELSE {}

\* the type code of the block an event was decoded from
BlockCode(kj) == disk[kj[1]][runs[kj[1]][kj[2]].file_position + 5]

FromBlock(kj) == runs[kj[1]][kj[2]].source # "pressure_analysis"

\* the ten respiratory and therapy kinds
TenKinds ==
    {"Obstructive Apnea", "Hypopnea", "Central Apnea", "Mixed Apnea",
     "Flow Limitation", "RERA (Respiratory Effort Related Arousal)",
     "Large Leak", "Mask Off", "Clear Airway", "Periodic Breathing"}

UnknownOf(code) == "Unknown_0x" \o Hex2Upper(code)

\* C14, as claimed: every returned event has one of the ten kinds, Inferred
\* Apnea Response or Unknown(code), and a type code outside 0x01..0x0A
\* always becomes Unknown(code).
ClosedKindSetOfTen ==
    \A kj \in Returned :
        LET e == runs[kj[1]][kj[2]]
        IN  /\ e.type \in TenKinds \cup {"Inferred Apnea Response"}
                          \cup {UnknownOf(c) : c \in 0..255}
            /\ (FromBlock(kj) /\ BlockCode(kj) \notin 1..10) =>
                  e.type = UnknownOf(BlockCode(kj))

\* C14, amended: every returned event has one of the ten kinds,
\* Marker/Timestamp, Session End, Inferred Apnea Response or Unknown(code);
\* the codes 0xAA and 0xFF keep their table names, and a type code outside
\* the twelve table codes becomes Unknown(code).
ClosedKindSetOfTable ==
    \A kj \in Returned :
        LET e == runs[kj[1]][kj[2]]
        IN  /\ e.type \in TenKinds
                          \cup {"Marker/Timestamp", "Session End",
                                "Inferred Apnea Response"}
                          \cup {UnknownOf(c) : c \in (0..255) \ TableCodes}
            /\ ~FromBlock(kj) => e.type = "Inferred Apnea Response"
            /\ (FromBlock(kj) /\ BlockCode(kj) \in 1..10) => e.type \in TenKinds
            /\ (FromBlock(kj) /\ BlockCode(kj) = 170) => e.type = "Marker/Timestamp"
            /\ (FromBlock(kj) /\ BlockCode(kj) = 255) => e.type = "Session End"
            /\ (FromBlock(kj) /\ BlockCode(kj) \notin TableCodes) =>
                  e.type = UnknownOf(BlockCode(kj))

\* one file gave a Marker/Timestamp event, a Session End event, an Unknown
\* event and an inferred one
ClosedKindSetWitness ==
    \E a, b, c, d \in Returned :
        /\ a[1] = b[1] /\ b[1] = c[1] /\ c[1] = d[1]
        /\ runs[a[1]][a[2]].type = "Marker/Timestamp"
        /\ runs[b[1]][b[2]].type = "Session End"
        /\ runs[c[1]][c[2]].type = "Unknown_0x0B"
        /\ runs[d[1]][d[2]].type = "Inferred Apnea Response"

\* how often e occurs in seq
Count(seq, e) == Cardinality({j \in 1..Len(seq) : seq[j] = e})

\* the three passes over the bytes of file k, one after the other
PassesOf(k) ==
    ParseAaaaMarkers(disk[k]) \o ParseEventPatterns(disk[k])
    \o InferEventsFromPressure(disk[k])

\* C15: the events returned for a file are a permutation of the marker pass,
\* the pattern pass and the inference pass put one after the other, as many
\* as the three passes gave together, and consecutive events never go back
\* in their time estimate.
UnionOfPassesSorted ==
    analyzer = "events" =>
        \A k \in 1..Len(runs) :
            LET out    == runs[k]
                passes == PassesOf(k)
            IN  /\ Len(out) = Len(ParseAaaaMarkers(disk[k]))
                               + Len(ParseEventPatterns(disk[k]))
                               + Len(InferEventsFromPressure(disk[k]))
                /\ \A j \in 1..Len(passes) :
                       Count(out, passes[j]) = Count(passes, passes[j])
                /\ \A j \in 1..Len(out) :
                       Count(out, out[j]) = Count(passes, out[j])
                /\ \A j \in 1..(Len(out) - 1) :
                       TimeKey(out[j].timestamp) <= TimeKey(out[j + 1].timestamp)

\* a file where all three passes gave events, the marker pass and the
\* pattern pass both read the bytes of one block, and the sort moved events
UnionOfPassesWitness ==
    /\ analyzer = "events"
    /\ \E k \in 1..Len(runs) :
           /\ InferEventsFromPressure(disk[k]) # <<>>
           /\ runs[k] # PassesOf(k)
           /\ \E a, b \in 1..Len(runs[k]) :
                  /\ runs[k][a].source = "aaaa_marker"
                  /\ runs[k][b].source = "ffff0000_marker"
                  /\ runs[k][a].file_position < runs[k][b].file_position
                  /\ runs[k][b].file_position + 16 <= runs[k][a].file_position + 32

\* the clock reading m minutes after 22:00
ClockAfter(m) ==
    LET t == (22 * 60 + m) % (24 * 60)
    IN  [hh |-> t \div 60, mm |-> t % 60]

\* C16, as claimed: position p of a buffer of size S maps to 22:00 plus
\* 8 hours times p / S, so position 0 maps to 22:00 and the end of any buffer
\* to 06:00.
TimeProportionalToBufferSize ==
    (call.fn = "_bytes_to_time_estimate" /\ result # Pending) =>
        /\ result.returned =
               ClockAfter((8 * 60 * call.byte_position) \div call.buffer_size)
        /\ call.byte_position = 0 => result.returned = [hh |-> 22, mm |-> 0]
        /\ call.byte_position = call.buffer_size =>
               result.returned = [hh |-> 6, mm |-> 0]

\* C16, amended: position p maps to 22:00 plus 8 hours times p / 16777216
\* whatever the size of the buffer, cut to whole minutes and wrapping past
\* midnight; position 0 maps to 22:00, and the end of a buffer maps to 06:00
\* when the buffer has 16777216 bytes.
TimeProportionalToNominalSize ==
    (call.fn = "_bytes_to_time_estimate" /\ result # Pending) =>
        /\ result.returned = ClockAfter((15 * call.byte_position) \div 524288)
        /\ call.byte_position = 0 => result.returned = [hh |-> 22, mm |-> 0]
        /\ (call.byte_position = call.buffer_size /\ call.buffer_size = 16777216) =>
               result.returned = [hh |-> 6, mm |-> 0]

\* the middle of a 16 MB buffer was asked for and came out as 02:00
TimeEstimateWitness ==
    /\ call.fn = "_bytes_to_time_estimate"
    /\ call.byte_position = 8388608
    /\ call.buffer_size = 16777216
    /\ result = [returned |-> [hh |-> 2, mm |-> 0]]

\* the events of file k that the inference pass gave
InferredOf(k) == SelectSeq(runs[k], LAMBDA e : e.source = "pressure_analysis")

\* the readings the stride-128 scan of file k accepted
AcceptedOf(k) == SparseReadings(disk[k], 0)

\* the rise from accepted reading j to the next
RiseAt(acc, j) == RSub(acc[j + 1].pressure, acc[j].pressure)

\* the inferred events of file k are those of the rises above 3.0 between
\* neighbours of acc: one event per such index, none elsewhere, each with
\* its severity and its three pressures
EmitsAtRises(k, acc) ==
    /\ \A e \in {InferredOf(k)[j] : j \in 1..Len(InferredOf(k))} :
           \E j \in 1..(Len(acc) - 1) : e.file_position = acc[j].timestamp
    /\ \A j \in 1..(Len(acc) - 1) :
           LET here == SelectSeq(InferredOf(k),
                           LAMBDA e : e.file_position = acc[j].timestamp)
           IN  IF RLt(FromInt(3), RiseAt(acc, j))
               THEN /\ Len(here) = 1
                    /\ here[1].type = "Inferred Apnea Response"
                    /\ here[1].severity = "Moderate" <=> RLt(FromInt(5), RiseAt(acc, j))
                    /\ here[1].severity = "Mild" <=> ~RLt(FromInt(5), RiseAt(acc, j))
                    /\ here[1].pressure_before = acc[j].pressure
                    /\ here[1].pressure_after = acc[j + 1].pressure
                    /\ here[1].pressure_increase = RiseAt(acc, j)
               ELSE here = <<>>

\* C17, as claimed: over the accepted readings the pass emits one Inferred
\* Apnea Response at every index where the next reading is more than 3.0
\* higher and at no other index, Moderate iff the rise is above 5.0 and
\* Mild otherwise, with both readings and the rise recorded.
InferenceEmissionAlways ==
    analyzer = "events" =>
        \A k \in 1..Len(runs) : EmitsAtRises(k, AcceptedOf(k))

\* C17, amended: the same when at least 10 readings were accepted; with
\* fewer than 10 accepted readings the pass emits nothing.
InferenceEmissionFromTen ==
    analyzer = "events" =>
        \A k \in 1..Len(runs) :
            IF Len(AcceptedOf(k)) >= 10
            THEN EmitsAtRises(k, AcceptedOf(k))
            ELSE InferredOf(k) = <<>>

\* a file with 10 accepted readings gave a Mild and a Moderate event and
\* none at a fall
InferenceEmissionWitness ==
    /\ analyzer = "events"
    /\ \E k \in 1..Len(runs) :
           LET acc == AcceptedOf(k)
           IN  /\ Len(acc) >= 10
               /\ \E a, b \in 1..Len(InferredOf(k)) :
                      /\ InferredOf(k)[a].severity = "Mild"
                      /\ InferredOf(k)[b].severity = "Moderate"
               /\ \E j \in 1..(Len(acc) - 1) :
                      /\ RLt(RiseAt(acc, j), FromInt(0))
                      /\ \A c \in 1..Len(InferredOf(k)) :
                             InferredOf(k)[c].file_position # acc[j].timestamp

\* the 16-bit value at offset o of file k
RawAt(k, o) == disk[k][o + 1] + 256 * disk[k][o + 2]

\* the divisors of divs that put raw / divisor inside [4.0, 25.0]
FittingOf(divs, raw) ==
    {d \in 1..Len(divs) :
        LET q == RDiv(FromInt(raw), divs[d])
        IN  RLe(FromInt(4), q) /\ RLe(q, FromInt(25))}

\* the readings a first-match scan of file k with the divisors divs accepts
\* at the offsets 0, 128, 256, ...
ScanOf(k, divs) ==
    LET offs == Ascending({o \in 0..(Len(disk[k]) - 2) :
                              o % 128 = 0 /\ FittingOf(divs, RawAt(k, o)) # {}})
    IN  [j \in 1..Len(offs) |->
            LET fit   == FittingOf(divs, RawAt(k, offs[j]))
                first == CHOOSE d \in fit : \A other \in fit : d <= other
            IN  [pressure |-> RDiv(FromInt(RawAt(k, offs[j])), divs[first]),
                 timestamp |-> offs[j]]]

\* C18, as claimed: the readings the inference pass accepts are those of
\* the multi-divisor first-match scan at stride 128 with the band
\* [4.0, 25.0].
InferenceScanMultiDivisor ==
    analyzer = "events" =>
        \A k \in 1..Len(runs) : AcceptedOf(k) = ScanOf(k, Divisors("timeline"))

\* C18, amended: the inference pass divides by 13.0 only: the window at
\* offset 128k is accepted iff raw / 13.0 lies in [4.0, 25.0], its value is
\* raw / 13.0, and the pressures of the inferred events are such values.
InferenceScanSingleDivisor ==
    analyzer = "events" =>
        \A k \in 1..Len(runs) :
            /\ AcceptedOf(k) = ScanOf(k, <<FromInt(13)>>)
            /\ \A j \in 1..Len(InferredOf(k)) :
                   LET e == InferredOf(k)[j]
                   IN  /\ e.file_position % 128 = 0
                       /\ e.pressure_before =
                              RDiv(FromInt(RawAt(k, e.file_position)), FromInt(13))
                       /\ \E o \in 0..(Len(disk[k]) - 2) :
                              /\ o > e.file_position /\ o % 128 = 0
                              /\ e.pressure_after = RDiv(FromInt(RawAt(k, o)), FromInt(13))

\* a file with inferred events holds a window that 12.5 would put in the
\* band and that the pass did not accept
InferenceScanWitness ==
    /\ analyzer = "events"
    /\ \E k \in 1..Len(runs) :
           /\ InferredOf(k) # <<>>
           /\ \E o \in 0..(Len(disk[k]) - 2) :
                  /\ o % 128 = 0
                  /\ FittingOf(Divisors("timeline"), RawAt(k, o)) = {1}
                  /\ \A j \in 1..Len(AcceptedOf(k)) : AcceptedOf(k)[j].timestamp # o

\* the files of the call that decode to readings, by ascending file number
FilesWithReadings ==
    Ascending({call.files[j] : j \in {x \in 1..Len(call.files) :
                                        call.readings[call.files[x]] # <<>>}})

\* their means, in that order
MeansByFileIndex ==
    [j \in 1..Len(FilesWithReadings) |-> Mean(call.readings[FilesWithReadings[j]])]

\* all readings of the call, file after file by ascending file number
RECURSIVE Concat(_)
Concat(seqs) == IF seqs = <<>> THEN <<>> ELSE Head(seqs) \o Concat(Tail(seqs))

ReadingsByFileIndex ==
    Concat([j \in 1..Len(FilesWithReadings) |-> call.readings[FilesWithReadings[j]]])

NeedsAdjustment ==
    /\ "pressure_analysis" \in DOMAIN call.analysis_results
    /\ "therapy_assessment" \in DOMAIN call.analysis_results.pressure_analysis
    /\ call.analysis_results.pressure_analysis.therapy_assessment.pressure_level
           = "requires_adjustment"

\* the usage percentage of the call, 0 when there is no usage data
UsagePercentage ==
    IF "usage_analysis" \in DOMAIN call.analysis_results
    THEN call.analysis_results.usage_analysis.usage_percentage
    ELSE FromInt(0)

\* text is one of the recommendations returned
Recommends(text) == \E j \in 1..Len(result.returned) : result.returned[j] = text

\* C20: the list ends with "continue monitoring" and then the 3-month
\* follow-up; the titration advisory is in it iff the pressure level is
\* requires_adjustment; the two adherence advisories are in it iff the usage
\* percentage is below 70; it has 2, 3, 4 or 5 entries, the standing ones
\* last.
RecommendationRule ==
    (call.fn = "_generate_clinical_recommendations" /\ result # Pending) =>
        LET r == result.returned
            n == Len(r)
        IN  /\ n \in {2, 3, 4, 5}
            /\ r[n - 1] = "Continue regular monitoring of therapy effectiveness"
            /\ r[n] = "Schedule follow-up assessment in 3 months"
            /\ Recommends("Consider pressure titration adjustment") <=> NeedsAdjustment
            /\ Recommends("Implement adherence improvement interventions")
                   <=> RLt(UsagePercentage, FromInt(70))
            /\ Recommends("Patient education on CPAP benefits and proper usage")
                   <=> RLt(UsagePercentage, FromInt(70))
            /\ n = 2 + (IF NeedsAdjustment THEN 1 ELSE 0)
                      + (IF RLt(UsagePercentage, FromInt(70)) THEN 2 ELSE 0)

\* a usage of exactly 70 percent with a pressure level that requires
\* adjustment gave the titration advisory and the two standing ones
RecommendationWitness ==
    /\ call.fn = "_generate_clinical_recommendations"
    /\ NeedsAdjustment
    /\ UsagePercentage = FromInt(70)
    /\ result = [returned |-> <<"Consider pressure titration adjustment",
                                "Continue regular monitoring of therapy effectiveness",
                                "Schedule follow-up assessment in 3 months">>]

\* C21: the therapeutic-window assessment and the peak analysis return a
\* result for every sample list, the empty one included, and never raise.
EmptyInputTotality ==
    (call.fn \in {"_assess_therapeutic_window", "_analyze_pressure_peaks"}
     /\ result # Pending) =>
        "returned" \in DOMAIN result

\* C22, as claimed: for a non-empty sample set median <= mean <= p95, the
\* mean allowed to miss either side by a tolerance, taken as 1.0 here, and
\* min <= p5 <= median and p95 <= max.
MeanBetweenMedianAndP95 ==
    (analysis # Pending /\ all_pressures # <<>>) =>
        LET st == analysis.statistics
        IN  /\ RLe(st.median, RAdd(st.mean, FromInt(1)))
            /\ RLe(st.mean, RAdd(st.p95, FromInt(1)))
            /\ RLe(st.min, st.p5)
            /\ RLe(st.p5, st.median)
            /\ RLe(st.p95, st.max)

\* C22, amended: for a non-empty sample set min <= p5 <= median <= p95 <= max
\* and min <= mean <= max; the mean is not ordered against the median or p95.
MeanBetweenMinAndMax ==
    (analysis # Pending /\ all_pressures # <<>>) =>
        LET st == analysis.statistics
        IN  /\ RLe(st.min, st.mean)
            /\ RLe(st.mean, st.max)
            /\ RLe(st.min, st.p5)
            /\ RLe(st.p5, st.median)
            /\ RLe(st.median, st.p95)
            /\ RLe(st.p95, st.max)

\* the readings 4.0, 20.0, 20.0 were analysed: the mean 44/3 lies more than
\* 5 below the median 20.0, and between the minimum and the maximum
MeanOrderingWitness ==
    /\ analysis # Pending
    /\ all_pressures = <<FromInt(4), FromInt(20), FromInt(20)>>
    /\ analysis.statistics.mean = [n |-> 44, d |-> 3]
    /\ analysis.statistics.median = FromInt(20)
    /\ analysis.statistics.min = FromInt(4)
    /\ analysis.statistics.max = FromInt(20)

\* three times the mean of the last three values less three times the mean
\* of the first three
ThreefoldChange ==
    LET n == Len(values)
    IN  RSub(RAdd(RAdd(values[n - 2], values[n - 1]), values[n]),
             RAdd(RAdd(values[1], values[2]), values[3]))

\* C23: with at least 3 means the progress is stable iff the mean of the
\* last three differs from the mean of the first three by less than 0.5,
\* increased iff it is at least 0.5 higher, decreased iff it is at least 0.5
\* lower; with fewer than 3 it is the insufficient-data string.
OptimizationProgressRule ==
    trend # Pending =>
        LET progress == trend.optimization_progress
        IN  IF Len(values) < 3 THEN progress = "Insufficient data"
            ELSE /\ progress = "Stable therapy (no significant changes)" <=>
                        (/\ RLt(ThreefoldChange, [n |-> 3, d |-> 2])
                         /\ RLt([n |-> -3, d |-> 2], ThreefoldChange))
                 /\ progress = "Pressure increased over time" <=>
                        RLe([n |-> 3, d |-> 2], ThreefoldChange)
                 /\ progress = "Pressure decreased over time" <=>
                        RLe(ThreefoldChange, [n |-> -3, d |-> 2])

\* the means 8.0, 8.0, 8.0, 9.5: the last three lie exactly 0.5 above the
\* first three, which counts as increased
OptimizationProgressWitness ==
    /\ values = <<FromInt(8), FromInt(8), FromInt(8), [n |-> 19, d |-> 2]>>
    /\ trend # Pending
    /\ ThreefoldChange = [n |-> 3, d |-> 2]
    /\ trend.optimization_progress = "Pressure increased over time"

\* b is the slope of the least-squares line through the points (xs[j], ys[j]):
\* the deviations of x times the deviations of y sum to b times the squared
\* deviations of x
LeastSquaresSlope(xs, ys, b) ==
    LET dx == [j \in 1..Len(xs) |-> RSub(xs[j], Mean(xs))]
        dy == [j \in 1..Len(ys) |-> RSub(ys[j], Mean(ys))]
    IN  Sum([j \in 1..Len(xs) |-> RMul(dx[j], dy[j])])
            = RMul(b, Sum([j \in 1..Len(xs) |-> RMul(dx[j], dx[j])]))

\* C24, as claimed: the slope is that of the least-squares line through the
\* points (file index, mean), also when the file indices have gaps.
SlopePerFileIndex ==
    (call.fn = "_extract_pressure_data" /\ trend # Pending
     /\ Len(FilesWithReadings) >= 3) =>
        LeastSquaresSlope([j \in 1..Len(FilesWithReadings) |->
                              FromInt(FilesWithReadings[j])],
                          MeansByFileIndex, trend.pressure_trend)

\* C24, amended: the slope is that of the least-squares line through the
\* points (position, mean), the position of a file being 0, 1, 2, ... in
\* the list sorted by file index: the change of the mean from one file to
\* the next one present, whatever the gaps between the file indices.
SlopePerPosition ==
    (call.fn = "_extract_pressure_data" /\ trend # Pending
     /\ Len(FilesWithReadings) >= 3) =>
        LeastSquaresSlope([j \in 1..Len(FilesWithReadings) |-> FromInt(j - 1)],
                          MeansByFileIndex, trend.pressure_trend)

\* the files 0, 1 and 10 with the means 6, 8 and 10, processed last file
\* first, gave the slope 2
SlopeWitness ==
    /\ call.fn = "_extract_pressure_data"
    /\ call.files = <<10, 1, 0>>
    /\ MeansByFileIndex = <<FromInt(6), FromInt(8), FromInt(10)>>
    /\ trend # Pending
    /\ trend.pressure_trend = FromInt(2)

\* the offsets of file k at which the four marker bytes stand
MarkerOffsets(k) ==
    {o \in 0..(Len(disk[k]) - 4) : Slice(disk[k], o, o + 4) = AaaaMarker}

\* the marker-pass events of file k that stand at offset o
MarkerEventsAt(k, o) ==
    SelectSeq(runs[k], LAMBDA e : e.source = "aaaa_marker" /\ e.file_position = o)

\* the 32 bytes from offset o of file k decode to an event
DecodesAt(k, o) == ParseEventBlock(Slice(disk[k], o, o + 32), o, "aaaa") # <<>>

\* C25: every marker at a multiple of 4 whose 32-byte block lies inside the
\* buffer is decoded exactly once, so a block that decodes to an event gives
\* exactly one marker-pass event at its offset, and the pass gives no event
\* at any other offset.
MarkerPassCoverage ==
    analyzer = "events" =>
        \A k \in 1..Len(runs) :
            /\ \A o \in MarkerOffsets(k) :
                   (o % 4 = 0 /\ o + 32 <= Len(disk[k]) /\ DecodesAt(k, o)) =>
                       Len(MarkerEventsAt(k, o)) = 1
            /\ \A j \in 1..Len(runs[k]) :
                   runs[k][j].source = "aaaa_marker" =>
                       /\ runs[k][j].file_position % 4 = 0
                       /\ runs[k][j].file_position \in MarkerOffsets(k)
                       /\ runs[k][j].file_position + 32 <= Len(disk[k])

\* the offsets of file k at which the pattern stands, aligned or not
PatternOffsets(k, pattern) ==
    {o \in 0..(Len(disk[k]) - 4) : Slice(disk[k], o, o + 4) = pattern}

\* the events of file k that the pattern gave at offset o
PatternEventsAt(k, pattern, o) ==
    SelectSeq(runs[k], LAMBDA e : /\ e.source = HexLower(pattern) \o "_marker"
                                  /\ e.file_position = o)

\* C26: for each of the three patterns and every offset, aligned or not, at
\* which it stands with offset + 16 below the buffer length, the block is
\* decoded exactly once with that pattern as the source, so a block that
\* decodes to an event gives exactly one event of that pattern at that
\* offset; no occurrence is skipped, and the pattern gives events nowhere
\* else.
PatternPassCompleteness ==
    analyzer = "events" =>
        \A k \in 1..Len(runs) : \A p \in 1..Len(patterns) :
            /\ \A o \in PatternOffsets(k, patterns[p]) :
                   Len(PatternEventsAt(k, patterns[p], o)) =
                       IF /\ o + 16 < Len(disk[k])
                          /\ ParseEventBlock(Slice(disk[k], o, o + 16), o,
                                             HexLower(patterns[p])) # <<>>
                       THEN 1 ELSE 0
            /\ \A j \in 1..Len(runs[k]) :
                   runs[k][j].source = HexLower(patterns[p]) \o "_marker" =>
                       runs[k][j].file_position \in PatternOffsets(k, patterns[p])

\* one file gave events of the first pattern at two offsets 4 apart, an
\* event of the reverse pattern at the odd-numbered word between them, and
\* none for the third pattern standing 16 bytes before the end
PatternPassWitness ==
    /\ analyzer = "events"
    /\ \E k \in 1..Len(runs) : \E o \in PatternOffsets(k, patterns[1]) :
           /\ Len(PatternEventsAt(k, patterns[1], o)) = 1
           /\ Len(PatternEventsAt(k, patterns[1], o + 4)) = 1
           /\ Len(PatternEventsAt(k, patterns[2], o + 2)) = 1
           /\ \E q \in PatternOffsets(k, patterns[3]) :
                  /\ q + 16 = Len(disk[k])
                  /\ PatternEventsAt(k, patterns[3], q) = <<>>

\* the files processed so far that gave at least one reading
Yielding == {k \in 1..Len(runs) : runs[k] # <<>>}

\* the sum of the counts of the entries of the files 1..n
RECURSIVE CountsUpTo(_)
CountsUpTo(n) ==
    IF n = 0 THEN 0
    ELSE CountsUpTo(n - 1) + (IF n \in DOMAIN per_file THEN per_file[n].count ELSE 0)

\* the aggregate list, the entries and the counts after the files so far
AccumulationState ==
    /\ all_pressures = Concat(runs)
    /\ DOMAIN per_file = Yielding
    /\ \A k \in DOMAIN per_file :
           /\ per_file[k].count = Len(runs[k])
           /\ per_file[k].count >= 1
           /\ per_file[k] = FileEntry(analyzer, runs[k])
    /\ Len(all_pressures) = CountsUpTo(Len(runs))
    /\ \A k \in 1..Len(runs) :
           runs[k] = IF call.files[k].readable
                     THEN ParsePressureData(analyzer, call.files[k].bytes, 0)
                     ELSE <<>>
    /\ pc = "done" =>
           /\ Len(runs) = Len(call.files)
           /\ result.returned.total_readings = CountsUpTo(Len(call.files))
           /\ result.returned.all_pressures = Concat(runs)

\* one file processed: the entries of the other files stay as they are, and
\* a file that is not read or gives no reading changes nothing
AccumulationStep ==
    fileIdx' = fileIdx + 1 =>
        /\ \A k \in DOMAIN per_file : k \in DOMAIN per_file' /\ per_file'[k] = per_file[k]
        /\ DOMAIN per_file' \subseteq DOMAIN per_file \cup {fileIdx}
        /\ (~call.files[fileIdx].readable \/ runs'[fileIdx] = <<>>) =>
               /\ per_file' = per_file
               /\ all_pressures' = all_pressures
        /\ pc' = "next"

\* C27: after any sequence of files the aggregate list is the concatenation
\* of the lists of the files that gave a reading, total_readings is the sum
\* of the per-file counts, every entry has a count of at least 1, and a file
\* whose read fails or that gives no reading adds no entry and leaves the
\* aggregate list and the other entries as they were, the loop going on
\* with the next file.
PerFileAccumulation == []AccumulationState /\ [][AccumulationStep]_vars

\* the call has returned after an unreadable file and a file without
\* readings, each with files that gave readings before and after it
AccumulationWitness ==
    /\ pc = "done"
    /\ call.fn = "extract_pressure_data"
    /\ \E a, b, c, d \in 1..Len(runs) :
           /\ a < b /\ b < c /\ c < d
           /\ runs[a] # <<>> /\ runs[d] # <<>>
           /\ {call.files[b].readable, call.files[c].readable} = {TRUE, FALSE}
           /\ runs[b] = <<>> /\ runs[c] = <<>>
    /\ result.returned.total_readings >= 2

\* C28: with the samples decoded in the band of 2.0 around the reference
\* mean 8.0 and correlated with that reference (p95 9.5), every buffer that
\* gives a sample has a mean difference of at most 2.0 and an overall
\* correlation of at least 0.69, so the quality is never below GOOD and the
\* pressure match never NEEDS REVIEW.
ValidationScoreFloor ==
    /\ correlation # Pending =>
           /\ all_pressures # <<>>
           /\ RLe(correlation.metrics.pressure_diff, FromInt(2))
           /\ RLe([n |-> 69, d |-> 100], correlation.overall_correlation)
    /\ analysis # Pending =>
           /\ analysis.correlation_quality \in {"EXCELLENT", "GOOD"}
           /\ analysis.pressure_match \in {"EXCELLENT", "GOOD"}

\* every sample is 6.0, the lower edge of the band: the mean is 2.0 off, the
\* p95 3.5 off, the score (3/4 + 12/19) / 2 = 105/152, and the report says
\* GOOD twice
ValidationFloorWitness ==
    /\ analysis # Pending
    /\ Len(all_pressures) >= 2
    /\ \A k \in 1..Len(all_pressures) : all_pressures[k] = FromInt(6)
    /\ correlation.metrics.pressure_diff = FromInt(2)
    /\ correlation.overall_correlation = [n |-> 105, d |-> 152]
    /\ analysis.correlation_quality = "GOOD"
    /\ analysis.pressure_match = "GOOD"

\* the clock time every event of a source carries: 0xAAAAAAAA, 0x0000FFFF,
\* 0xFFFF0000 and 0xDDCCBBAA modulo 86400 are 15530, 65535, 44160 and 20522
\* seconds
SourceTime ==
    [s \in {"aaaa_marker", "ffff0000_marker", "0000ffff_marker", "aabbccdd_marker"} |->
        IF s = "aaaa_marker" THEN [hh |-> 4, mm |-> 18]
        ELSE IF s = "ffff0000_marker" THEN [hh |-> 18, mm |-> 12]
        ELSE IF s = "0000ffff_marker" THEN [hh |-> 12, mm |-> 16]
        ELSE [hh |-> 5, mm |-> 42]]

\* the events of the state that a source gave
EventsOfSource(s) ==
    UNION {{[file |-> k, event |-> runs[k][j]] :
               j \in {x \in 1..Len(runs[k]) : runs[k][x].source = s}} :
           k \in 1..Len(runs)}

\* C29: every marker-pass event of every buffer carries the time estimate
\* 04:18 of the marker's own four bytes, and its type code and duration are
\* the byte at marker offset + 4 and the 16-bit value at + 5 .. + 6; every
\* pattern-pass event carries the one time estimate of its signature.
ConstantTimeEstimates ==
    analyzer = "events" =>
        \A s \in DOMAIN SourceTime : \A x \in EventsOfSource(s) :
            /\ x.event.timestamp = SourceTime[s]
            /\ LET o == x.event.file_position
                   bytes == disk[x.file]
               IN  /\ x.event.raw_type_code = "0x" \o Hex2Upper(bytes[o + 5])
                   /\ x.event.duration = bytes[o + 6] + 256 * bytes[o + 7]
                   /\ s = "aaaa_marker" => Slice(bytes, o, o + 4) = AaaaMarker

\* marker-pass events of two type codes at two offsets, and events of each
\* of the three signatures
ConstantTimeWitness ==
    /\ analyzer = "events"
    /\ \E x, y \in EventsOfSource("aaaa_marker") :
           /\ x.event.file_position # y.event.file_position
           /\ x.event.raw_type_code # y.event.raw_type_code
           /\ x.event.duration # y.event.duration
    /\ \A s \in DOMAIN SourceTime : EventsOfSource(s) # {}

\* C30: in the events returned for one buffer the inferred events stand in
\* ascending order of file position, also when the estimated times run from
\* 22:00 past midnight.
InferredInSessionOrder ==
    (call.fn = "_extract_events_from_file" /\ result # Pending) =>
        LET evs == SelectSeq(result.returned,
                             LAMBDA e : e.source = "pressure_analysis")
        IN  \A a, b \in 1..Len(evs) :
                a < b => evs[a].file_position <= evs[b].file_position

==========================================================================
